---------------------------- MODULE Spec2Model ----------------------------
(* A model of the git MCP server: the input validators, the handle factory *)
(* and the executeTool dispatcher of the validating implementation.        *)
(*                                                                         *)
(* A JavaScript string is a sequence of one-character strings. A text that *)
(* the program builds with a template literal is a sequence of tokens: the *)
(* literal parts of the template are tokens of their own, an interpolated  *)
(* string contributes its characters.                                      *)
EXTENDS Integers, Sequences, FiniteSets, TLC

\* Longest string handed to a validator on its own.
MaxLen == 3
\* Longest files list handed to commit_changes.
MaxFiles == 2
\* the lines a peer writes, and the 'data' events stdin emits
MaxLines == 3
MaxChunks == 2
\* the lines a peer writes where every primitive settles
MaxLiveLines == 2

---------------------------------------------------------------------------
(* Characters and strings *)

Letters == {"a"}
White == {" ", "\n"}
\* The backtick character (a string of the module cannot hold one).
Backtick == "BACKTICK"
\* The characters of the class [<>|&;$`] of the three regular expressions.
ShellChars == {"<", ">", "|", "&", ";", "$", Backtick}
Alphabet == Letters \cup White \cup ShellChars \cup {".", "/", "\\", ":"}

StringsUpTo(n) == UNION {[1..k -> Alphabet] : k \in 0..n}

\* String.prototype.includes
includes(s, sub) ==
  \E i \in 1..(Len(s) - Len(sub) + 1) : SubSeq(s, i, i + Len(sub) - 1) = sub

\* String.prototype.startsWith, for a one-character prefix
startsWith(s, c) == Len(s) >= 1 /\ s[1] = c

\* A match of a character class anywhere in the string
matchClass(s, class) == \E i \in 1..Len(s) : s[i] \in class

RECURSIVE trimStart(_)
trimStart(s) ==
  IF s # <<>> /\ Head(s) \in White THEN trimStart(Tail(s)) ELSE s

RECURSIVE trimEnd(_)
trimEnd(s) ==
  IF s # <<>> /\ s[Len(s)] \in White THEN trimEnd(SubSeq(s, 1, Len(s) - 1)) ELSE s

\* String.prototype.trim
trim(s) == trimEnd(trimStart(s))

\* s.split('/').pop(): the text after the last '/', the whole text without one
RECURSIVE lastSegment(_)
lastSegment(s) ==
  IF ~ includes(s, <<"/">>) THEN s
  ELSE LET i == CHOOSE j \in 1..Len(s) : s[j] = "/" /\ \A k \in 1..(j - 1) : s[k] # "/"
       IN lastSegment(SubSeq(s, i + 1, Len(s)))

---------------------------------------------------------------------------
(* JavaScript values: undefined, null, numbers, strings, arrays *)

Undef == [t |-> "undefined", s |-> <<>>, a |-> <<>>]
Null == [t |-> "null", s |-> <<>>, a |-> <<>>]
Str(s) == [t |-> "string", s |-> s, a |-> <<>>]
\* a number, kept as the token of its decimal text
Num(tok) == [t |-> "number", s |-> <<tok>>, a |-> <<>>]
Arr(a) == [t |-> "array", s |-> <<>>, a |-> a]

\* !v
Falsy(v) ==
  \/ v.t \in {"undefined", "null"}
  \/ v.t = "string" /\ v.s = <<>>
  \/ v.t = "number" /\ v.s = <<"0">>

RECURSIVE joinComma(_)
\* String(v), and `${v}` in a template literal
String(v) ==
  CASE v.t = "undefined" -> <<"undefined">>
    [] v.t = "null" -> <<"null">>
    [] v.t = "array" -> joinComma(v.a)
    [] OTHER -> v.s
joinComma(a) ==
  IF a = <<>> THEN <<>>
  ELSE LET h == IF Head(a).t \in {"undefined", "null"} THEN <<>> ELSE String(Head(a))
       IN IF Len(a) = 1 THEN h ELSE h \o <<",">> \o joinComma(Tail(a))

---------------------------------------------------------------------------
(* Thrown values and the outcome of a synchronous call *)

\* new Error(message)
Error(msg) == [isErr |-> TRUE, message |-> msg, value |-> Undef]
\* a thrown or rejected value that is not an Error
NonError(v) == [isErr |-> FALSE, message |-> <<>>, value |-> v]
NoError == [isErr |-> FALSE, message |-> <<"(none)">>, value |-> Undef]

Throw(msg) == [thrown |-> TRUE, err |-> Error(<<msg>>), val |-> Undef]
Ret(v) == [thrown |-> FALSE, err |-> NoError, val |-> v]

---------------------------------------------------------------------------
(* Input validation functions *)

\* validatePath with the two checks in the other order
validatePathClassFirst(path) ==
  IF Falsy(path) \/ path.t # "string"
  THEN Throw("Path must be a non-empty string")
  ELSE IF startsWith(path.s, "/") \/ matchClass(path.s, ShellChars)
  THEN Throw("Invalid path: dangerous characters not allowed")
  ELSE IF includes(path.s, <<".", ".">>) \/ startsWith(path.s, "/")
          \/ includes(path.s, <<"\\">>)
  THEN Throw("Invalid path: path traversal not allowed")
  ELSE Ret(path)

\* validatePath testing for a leading backslash only
validatePathLeadingBackslash(path) ==
  IF Falsy(path) \/ path.t # "string"
  THEN Throw("Path must be a non-empty string")
  ELSE IF includes(path.s, <<".", ".">>) \/ startsWith(path.s, "/")
          \/ startsWith(path.s, "\\")
  THEN Throw("Invalid path: path traversal not allowed")
  ELSE IF startsWith(path.s, "/") \/ matchClass(path.s, ShellChars)
  THEN Throw("Invalid path: dangerous characters not allowed")
  ELSE Ret(path)

validatePath(path) ==
  IF Falsy(path) \/ path.t # "string"
  THEN Throw("Path must be a non-empty string")
  ELSE IF includes(path.s, <<".", ".">>) \/ startsWith(path.s, "/")
          \/ includes(path.s, <<"\\">>)
  THEN Throw("Invalid path: path traversal not allowed")
  ELSE IF startsWith(path.s, "/") \/ matchClass(path.s, ShellChars)
  THEN Throw("Invalid path: dangerous characters not allowed")
  ELSE Ret(path)

\* validateBranchName returning its argument as it was given
validateBranchNameUntrimmed(branchName) ==
  IF Falsy(branchName) \/ branchName.t # "string"
  THEN Throw("Branch name must be a non-empty string")
  ELSE IF matchClass(branchName.s, ShellChars \cup {"\\"})
          \/ includes(branchName.s, <<".", ".">>)
  THEN Throw("Invalid branch name: dangerous characters not allowed")
  ELSE IF Len(trim(branchName.s)) = 0
  THEN Throw("Branch name cannot be empty or whitespace-only")
  ELSE Ret(branchName)

validateBranchName(branchName) ==
  IF Falsy(branchName) \/ branchName.t # "string"
  THEN Throw("Branch name must be a non-empty string")
  ELSE IF matchClass(branchName.s, ShellChars \cup {"\\"})
          \/ includes(branchName.s, <<".", ".">>)
  THEN Throw("Invalid branch name: dangerous characters not allowed")
  ELSE IF Len(trim(branchName.s)) = 0
  THEN Throw("Branch name cannot be empty or whitespace-only")
  ELSE Ret(Str(trim(branchName.s)))

\* validateCommitMessage returning its argument trimmed
validateCommitMessageTrimmed(message) ==
  IF Falsy(message) \/ message.t # "string"
  THEN Throw("Commit message must be a non-empty string")
  ELSE IF matchClass(message.s, ShellChars \cup {"\\"})
  THEN Throw("Invalid commit message: dangerous characters not allowed")
  ELSE Ret(Str(trim(message.s)))

\* validateCommitMessage with the backtick missing from its class
validateCommitMessageNoBacktick(message) ==
  IF Falsy(message) \/ message.t # "string"
  THEN Throw("Commit message must be a non-empty string")
  ELSE IF matchClass(message.s, (ShellChars \ {Backtick}) \cup {"\\"})
  THEN Throw("Invalid commit message: dangerous characters not allowed")
  ELSE Ret(message)

validateCommitMessage(message) ==
  IF Falsy(message) \/ message.t # "string"
  THEN Throw("Commit message must be a non-empty string")
  ELSE IF matchClass(message.s, ShellChars \cup {"\\"})
  THEN Throw("Invalid commit message: dangerous characters not allowed")
  ELSE Ret(message)

---------------------------------------------------------------------------
(* The repository root and the handle factory *)

VARIABLES
  GIT_REPO_PATH,  \* process.env.GIT_REPO_PATH as it is now (Undef: not set)
  cwd,            \* process.cwd()
  loaded,         \* the value REPO_PATH was given when the module was loaded
  atStart         \* process.env.GIT_REPO_PATH as it was when the process started

\* process.env.GIT_REPO_PATH || process.cwd(): an unset or empty variable is
\* falsy and gives the working directory
envOrCwd(e, c) == IF Falsy(e) THEN c ELSE e.s[1]

\* const REPO_PATH = process.env.GIT_REPO_PATH || process.cwd(), evaluated
\* once, when the module is loaded
REPO_PATH == loaded

\* createGitInstance() reading the environment again at every call
createGitInstanceFromEnv(ok) ==
  IF ok THEN Ret(Str(<<envOrCwd(GIT_REPO_PATH, cwd)>>))
  ELSE [thrown |-> TRUE,
        err |-> Error(<<"Failed to initialize git repository at ",
                        envOrCwd(GIT_REPO_PATH, cwd), ": ", "cause">>),
        val |-> Undef]

\* createGitInstance(): simpleGit(REPO_PATH), which throws when ok is FALSE
createGitInstance(ok) ==
  IF ok THEN Ret(Str(<<REPO_PATH>>))
  ELSE [thrown |-> TRUE,
        err |-> Error(<<"Failed to initialize git repository at ", REPO_PATH, ": ", "cause">>),
        val |-> Undef]

---------------------------------------------------------------------------
(* Argument bags *)

EmptyBag ==
  [bag |-> TRUE, branchName |-> Undef, fromBranch |-> Undef, sourceBranch |-> Undef,
   targetBranch |-> Undef, path |-> Undef, branch |-> Undef, message |-> Undef,
   files |-> Undef, remote |-> Undef, repo_path |-> Undef, source |-> Undef,
   target |-> Undef]
\* args is null or undefined: nothing can be destructured from it
NoBag == [EmptyBag EXCEPT !.bag = FALSE]

---------------------------------------------------------------------------
(* The steps of one executeTool call, in the order the code runs them.     *)
(* handle: a handle was constructed; throw: a statement throws; prim: a    *)
(* version-control primitive is invoked and awaited; ret: a result is      *)
(* returned, its text ending with a rendering of the last primitive's      *)
(* value (use).                                                            *)

HandleStep(root) ==
  [k |-> "handle", e |-> NoError, p |-> "", pargs |-> <<>>, text |-> <<>>,
   use |-> "none", isError |-> FALSE, root |-> root]
ThrowStep(e) ==
  [k |-> "throw", e |-> e, p |-> "", pargs |-> <<>>, text |-> <<>>,
   use |-> "none", isError |-> FALSE, root |-> ""]
PrimStep(p, pargs) ==
  [k |-> "prim", e |-> NoError, p |-> p, pargs |-> pargs, text |-> <<>>,
   use |-> "none", isError |-> FALSE, root |-> ""]
RetStep(text, use, isError) ==
  [k |-> "ret", e |-> NoError, p |-> "", pargs |-> <<>>, text |-> text,
   use |-> use, isError |-> isError, root |-> ""]

\* const git = createGitInstance(); followed by the rest of the try block
WithHandle(git, rest) ==
  IF git.thrown THEN <<ThrowStep(git.err)>> ELSE <<HandleStep(git.val.s[1])>> \o rest

\* const { ... } = args; throws a TypeError when args is null or undefined
Destructure(args, rest) ==
  IF ~ args.bag
  THEN <<ThrowStep(Error(<<"Cannot destructure property of 'args'">>))>>
  ELSE rest

\* a literal string of the code, as a value
Lit(tok) == Str(<<tok>>)

GitStatusCase(args, git) ==
  WithHandle(git, <<PrimStep("status", <<>>), RetStep(<<>>, "json", FALSE)>>)

\* create_branch without the fromBranch branch: always the local path
CreateBranchCaseAlwaysLocal(args, git) ==
  WithHandle(git, Destructure(args,
    LET vb == validateBranchName(args.branchName)
        vf == IF Falsy(args.fromBranch) THEN Ret(Undef)
              ELSE validateBranchName(args.fromBranch)
    IN IF vb.thrown THEN <<ThrowStep(vb.err)>>
       ELSE IF vf.thrown THEN <<ThrowStep(vf.err)>>
       ELSE <<PrimStep("checkoutLocalBranch", <<vb.val>>),
              RetStep(<<"Branch '">> \o vb.val.s \o <<"' created successfully">>,
                      "none", FALSE)>>))

CreateBranchCase(args, git) ==
  WithHandle(git, Destructure(args,
    LET vb == validateBranchName(args.branchName)
        vf == IF Falsy(args.fromBranch) THEN Ret(Undef)
              ELSE validateBranchName(args.fromBranch)
    IN IF vb.thrown THEN <<ThrowStep(vb.err)>>
       ELSE IF vf.thrown THEN <<ThrowStep(vf.err)>>
       ELSE IF ~ Falsy(vf.val)
       THEN <<PrimStep("checkoutBranch", <<vb.val, vf.val>>),
              RetStep(<<"Branch '">> \o vb.val.s \o <<"' created successfully">>
                      \o <<" from '">> \o vf.val.s \o <<"'">>, "none", FALSE)>>
       ELSE <<PrimStep("checkoutLocalBranch", <<vb.val>>),
              RetStep(<<"Branch '">> \o vb.val.s \o <<"' created successfully">>,
                      "none", FALSE)>>))

SwitchBranchCase(args, git) ==
  WithHandle(git, Destructure(args,
    LET vb == validateBranchName(args.branchName)
    IN IF vb.thrown THEN <<ThrowStep(vb.err)>>
       ELSE <<PrimStep("checkout", <<vb.val>>),
              RetStep(<<"Switched to branch '">> \o vb.val.s \o <<"'">>, "none", FALSE)>>))

ListBranchesCase(args, git) ==
  WithHandle(git, <<PrimStep("branch", <<>>), RetStep(<<>>, "json", FALSE)>>)

\* create_worktree without the literal fallback name
CreateWorktreeCaseNoFallback(args, git) ==
  WithHandle(git, Destructure(args,
    LET vp == validatePath(args.path)
        vb == IF Falsy(args.branch) THEN Ret(Undef) ELSE validateBranchName(args.branch)
    IN IF vp.thrown THEN <<ThrowStep(vp.err)>>
       ELSE IF vb.thrown THEN <<ThrowStep(vb.err)>>
       ELSE LET worktreeBranch ==
                  IF ~ Falsy(vb.val) THEN vb.val ELSE Str(lastSegment(vp.val.s))
            IN <<PrimStep("raw", <<Arr(<<Lit("worktree"), Lit("add"), Lit("-b"),
                                          worktreeBranch, vp.val>>)>>),
                 RetStep(<<"Worktree created at '">> \o vp.val.s \o <<"' on new branch '">>
                         \o worktreeBranch.s \o <<"'">>, "none", FALSE)>>))

\* create_worktree taking the last segment that is not empty
CreateWorktreeCaseLastNonEmpty(args, git) ==
  WithHandle(git, Destructure(args,
    LET vp == validatePath(args.path)
        vb == IF Falsy(args.branch) THEN Ret(Undef) ELSE validateBranchName(args.branch)
    IN IF vp.thrown THEN <<ThrowStep(vp.err)>>
       ELSE IF vb.thrown THEN <<ThrowStep(vb.err)>>
       ELSE LET ends == {k \in 1..Len(vp.val.s) : vp.val.s[k] # "/"}
                kept == IF ends = {} THEN <<>>
                        ELSE SubSeq(vp.val.s, 1, CHOOSE k \in ends : \A j \in ends : j <= k)
                seg == Str(lastSegment(kept))
                worktreeBranch ==
                  IF ~ Falsy(vb.val) THEN vb.val
                  ELSE IF ~ Falsy(seg) THEN seg
                  ELSE Lit("worktree-branch")
            IN <<PrimStep("raw", <<Arr(<<Lit("worktree"), Lit("add"), Lit("-b"),
                                          worktreeBranch, vp.val>>)>>),
                 RetStep(<<"Worktree created at '">> \o vp.val.s \o <<"' on new branch '">>
                         \o worktreeBranch.s \o <<"'">>, "none", FALSE)>>))

CreateWorktreeCase(args, git) ==
  WithHandle(git, Destructure(args,
    LET vp == validatePath(args.path)
        vb == IF Falsy(args.branch) THEN Ret(Undef) ELSE validateBranchName(args.branch)
    IN IF vp.thrown THEN <<ThrowStep(vp.err)>>
       ELSE IF vb.thrown THEN <<ThrowStep(vb.err)>>
       ELSE LET seg == Str(lastSegment(vp.val.s))
                worktreeBranch ==
                  IF ~ Falsy(vb.val) THEN vb.val
                  ELSE IF ~ Falsy(seg) THEN seg
                  ELSE Lit("worktree-branch")
            IN <<PrimStep("raw", <<Arr(<<Lit("worktree"), Lit("add"), Lit("-b"),
                                          worktreeBranch, vp.val>>)>>),
                 RetStep(<<"Worktree created at '">> \o vp.val.s \o <<"' on new branch '">>
                         \o worktreeBranch.s \o <<"'">>, "none", FALSE)>>))

ListWorktreesCase(args, git) ==
  WithHandle(git, <<PrimStep("raw", <<Arr(<<Lit("worktree"), Lit("list")>>)>>),
                    RetStep(<<>>, "raw", FALSE)>>)

\* merge_branch checking out the target before it validates the source
MergeBranchCaseLateValidation(args, git) ==
  WithHandle(git, Destructure(args,
    LET vs == validateBranchName(args.sourceBranch)
        vt == IF Falsy(args.targetBranch) THEN Ret(Undef)
              ELSE validateBranchName(args.targetBranch)
    IN IF vt.thrown THEN <<ThrowStep(vt.err)>>
       ELSE (IF ~ Falsy(vt.val) THEN <<PrimStep("checkout", <<vt.val>>)>> ELSE <<>>)
            \o (IF vs.thrown THEN <<ThrowStep(vs.err)>>
                ELSE <<PrimStep("merge", <<Arr(<<vs.val>>)>>),
                       RetStep(<<"Merged '">> \o vs.val.s \o <<"' into '">>
                               \o (IF ~ Falsy(vt.val) THEN vt.val.s
                                   ELSE <<"current branch">>)
                               \o <<"'">>, "none", FALSE)>>)))

\* merge_branch merging before it checks the target out
MergeBranchCaseMergeFirst(args, git) ==
  WithHandle(git, Destructure(args,
    LET vs == validateBranchName(args.sourceBranch)
        vt == IF Falsy(args.targetBranch) THEN Ret(Undef)
              ELSE validateBranchName(args.targetBranch)
    IN IF vs.thrown THEN <<ThrowStep(vs.err)>>
       ELSE IF vt.thrown THEN <<ThrowStep(vt.err)>>
       ELSE <<PrimStep("merge", <<Arr(<<vs.val>>)>>)>>
            \o (IF ~ Falsy(vt.val) THEN <<PrimStep("checkout", <<vt.val>>)>> ELSE <<>>)
            \o <<RetStep(<<"Merged '">> \o vs.val.s \o <<"' into '">>
                         \o (IF ~ Falsy(vt.val) THEN vt.val.s ELSE <<"current branch">>)
                         \o <<"'">>, "none", FALSE)>>))

MergeBranchCase(args, git) ==
  WithHandle(git, Destructure(args,
    LET vs == validateBranchName(args.sourceBranch)
        vt == IF Falsy(args.targetBranch) THEN Ret(Undef)
              ELSE validateBranchName(args.targetBranch)
    IN IF vs.thrown THEN <<ThrowStep(vs.err)>>
       ELSE IF vt.thrown THEN <<ThrowStep(vt.err)>>
       ELSE (IF ~ Falsy(vt.val) THEN <<PrimStep("checkout", <<vt.val>>)>> ELSE <<>>)
            \o <<PrimStep("merge", <<Arr(<<vs.val>>)>>),
                 RetStep(<<"Merged '">> \o vs.val.s \o <<"' into '">>
                         \o (IF ~ Falsy(vt.val) THEN vt.val.s ELSE <<"current branch">>)
                         \o <<"'">>, "none", FALSE)>>))

RemoveWorktreeCase(args, git) ==
  WithHandle(git, Destructure(args,
    LET vp == validatePath(args.path)
    IN IF vp.thrown THEN <<ThrowStep(vp.err)>>
       ELSE <<PrimStep("raw", <<Arr(<<Lit("worktree"), Lit("remove"), vp.val>>)>>),
              RetStep(<<"Worktree at '">> \o vp.val.s \o <<"' removed successfully">>,
                      "none", FALSE)>>))

\* the callback without its typeof test: a non-string has no includes
validateFileNoTypeTest(file) ==
  IF file.t # "string"
  THEN Throw("file.includes is not a function")
  ELSE IF includes(file.s, <<".", ".">>) \/ startsWith(file.s, "/")
          \/ includes(file.s, <<"\\">>) \/ matchClass(file.s, ShellChars)
  THEN [thrown |-> TRUE, err |-> Error(<<"Invalid file path: ">> \o file.s), val |-> Undef]
  ELSE Ret(file)

\* the callback of files.map in commit_changes
validateFile(file) ==
  IF file.t # "string"
  THEN Throw("File paths must be strings")
  ELSE IF includes(file.s, <<".", ".">>) \/ startsWith(file.s, "/")
          \/ includes(file.s, <<"\\">>) \/ matchClass(file.s, ShellChars)
  THEN [thrown |-> TRUE, err |-> Error(<<"Invalid file path: ">> \o file.s), val |-> Undef]
  ELSE Ret(file)

\* files.map(callback): the callback's first throw ends the map
mapValidateFile(files) ==
  LET bad == {i \in 1..Len(files) : validateFile(files[i]).thrown}
  IN IF bad = {}
     THEN Ret(Arr([i \in 1..Len(files) |-> validateFile(files[i]).val]))
     ELSE LET first == CHOOSE i \in bad : \A j \in bad : i <= j
          IN validateFile(files[first])

\* files && files.length > 0
HasFiles(files) ==
  /\ ~ Falsy(files)
  /\ \/ files.t = "array" /\ Len(files.a) > 0
     \/ files.t = "string" /\ Len(files.s) > 0

CommitChangesCase(args, git) ==
  WithHandle(git, Destructure(args,
    LET vm == validateCommitMessage(args.message)
        commitSteps == <<PrimStep("commit", <<vm.val>>),
                         RetStep(<<"Changes committed: ">>, "commit", FALSE)>>
    IN IF vm.thrown THEN <<ThrowStep(vm.err)>>
       ELSE IF HasFiles(args.files)
       THEN IF args.files.t # "array"
            THEN <<ThrowStep(Error(<<"files.map is not a function">>))>>
            ELSE LET vf == mapValidateFile(args.files.a)
                 IN IF vf.thrown THEN <<ThrowStep(vf.err)>>
                    ELSE <<PrimStep("add", <<vf.val>>)>> \o commitSteps
       ELSE <<PrimStep("add", <<Lit(".")>>)>> \o commitSteps))

\* const { remote = 'origin', branch } = args
RemoteOrDefault(args) == IF args.remote = Undef THEN Lit("origin") ELSE args.remote

PushChangesCase(args, git) ==
  WithHandle(git, Destructure(args,
    LET remote == RemoteOrDefault(args)
        branch == args.branch
    IN <<IF ~ Falsy(branch) THEN PrimStep("push", <<remote, branch>>)
         ELSE PrimStep("push", <<>>),
         RetStep(<<"Changes pushed to ">> \o String(remote)
                 \o (IF ~ Falsy(branch) THEN <<"/">> \o String(branch) ELSE <<>>),
                 "none", FALSE)>>))

PullChangesCase(args, git) ==
  WithHandle(git, Destructure(args,
    LET remote == RemoteOrDefault(args)
        branch == args.branch
    IN <<IF ~ Falsy(branch) THEN PrimStep("pull", <<remote, branch>>)
         ELSE PrimStep("pull", <<>>),
         RetStep(<<"Changes pulled from ">> \o String(remote)
                 \o (IF ~ Falsy(branch) THEN <<"/">> \o String(branch) ELSE <<>>),
                 "none", FALSE)>>))

\* a case of the switch whose body is one try block with a catch that
\* returns `<prefix> error: <message>`
Try(prefix, steps) == [try |-> TRUE, prefix |-> prefix, steps |-> steps]
\* the tools array with an entry for git_diff
toolsWithGitDiff ==
  <<"git_status", "create_branch", "switch_branch", "list_branches", "merge_branch",
    "create_worktree", "list_worktrees", "remove_worktree", "commit_changes",
    "push_changes", "pull_changes", "git_diff">>

\* the names of the tools array, which the tools/list handler returns
tools ==
  <<"git_status", "create_branch", "switch_branch", "list_branches", "merge_branch",
    "create_worktree", "list_worktrees", "remove_worktree", "commit_changes",
    "push_changes", "pull_changes">>

\* the default case with a handle constructed before the switch
DefaultCaseWithHandle(name) ==
  [try |-> FALSE, prefix |-> "",
   steps |-> <<HandleStep(REPO_PATH), RetStep(<<"Unknown tool: ", name>>, "none", TRUE)>>]

\* the default case: no try block
DefaultCase(name) ==
  [try |-> FALSE, prefix |-> "",
   steps |-> <<RetStep(<<"Unknown tool: ", name>>, "none", TRUE)>>]

\* executeTool(name, args): the case of the switch that runs, with the
\* handle factory succeeding (hOk) or throwing
executeTool(name, args, hOk) ==
  LET git == createGitInstance(hOk) IN
  CASE name = "git_status" -> Try("Git status", GitStatusCase(args, git))
    [] name = "create_branch" -> Try("Create branch", CreateBranchCase(args, git))
    [] name = "switch_branch" -> Try("Switch branch", SwitchBranchCase(args, git))
    [] name = "list_branches" -> Try("List branches", ListBranchesCase(args, git))
    [] name = "create_worktree" -> Try("Create worktree", CreateWorktreeCase(args, git))
    [] name = "list_worktrees" -> Try("List worktrees", ListWorktreesCase(args, git))
    [] name = "merge_branch" -> Try("Merge", MergeBranchCase(args, git))
    [] name = "remove_worktree" -> Try("Remove worktree", RemoveWorktreeCase(args, git))
    [] name = "commit_changes" -> Try("Commit", CommitChangesCase(args, git))
    [] name = "push_changes" -> Try("Push", PushChangesCase(args, git))
    [] name = "pull_changes" -> Try("Pull", PullChangesCase(args, git))
    [] OTHER -> DefaultCase(name)

---------------------------------------------------------------------------
(* The line-based server: bytes, text, lines and JSON documents.          *)
(* A byte of the input is a token: a newline, a blank, a two-byte UTF-8   *)
(* character given by its lead and continuation bytes, or a run of ASCII  *)
(* bytes that no chunk boundary of the model cuts (a whole JSON object,   *)
(* the opening of one up to its last string, its closing, the literal     *)
(* null).                                                                 *)

Lead == "C3"
Cont == "A9"
EAcute == "U+00E9"
Replacement == "U+FFFD"

\* chunk.toString(): the bytes of one chunk decoded as UTF-8 on their own;
\* a lead byte without its continuation and a continuation without its lead
\* decode to the replacement character
RECURSIVE toString(_)
toString(bytes) ==
  IF bytes = <<>> THEN <<>>
  ELSE IF bytes[1] = Lead
  THEN IF Len(bytes) >= 2 /\ bytes[2] = Cont
       THEN <<EAcute>> \o toString(SubSeq(bytes, 3, Len(bytes)))
       ELSE <<Replacement>> \o toString(Tail(bytes))
  ELSE IF bytes[1] = Cont THEN <<Replacement>> \o toString(Tail(bytes))
  ELSE <<bytes[1]>> \o toString(Tail(bytes))

\* buffer.split('\n')
RECURSIVE split(_)
split(s) ==
  IF \A i \in 1..Len(s) : s[i] # "\n" THEN <<s>>
  ELSE LET k == CHOOSE i \in 1..Len(s) : s[i] = "\n" /\ \A j \in 1..(i - 1) : s[j] # "\n"
       IN <<SubSeq(s, 1, k - 1)>> \o split(SubSeq(s, k + 1, Len(s)))

\* messages after messages.pop()
popped(messages) == SubSeq(messages, 1, Len(messages) - 1)
\* messages.pop() || ''
popOrEmpty(messages) == messages[Len(messages)]

\* a request object with every member it can carry
Request(id, method, given, name, arguments) ==
  [isNull |-> FALSE, id |-> id, method |-> method,
   params |-> [given |-> given, name |-> name, arguments |-> arguments]]
\* the JSON document null
JSONNull == [Request(Undef, Undef, FALSE, Undef, NoBag) EXCEPT !.isNull = TRUE]

\* the JSON objects of the model that are one run of bytes, and the
\* opening of the one whose last string, str, can hold any character
Objects == {"{init}", "{list}", "{branch}", "{nope}", "{noargs}", "{diff}", "{foo}"}
\* the requests that check out a branch on their way
RepoObjects == {"{merge}", "{switch}"}
Opening == "{commit:"
Closing == "}"
Document(object, str) ==
  CASE object = "{init}" ->
         Request(Num("1"), Lit("initialize"), TRUE, Undef, NoBag)
    [] object = "{list}" ->
         Request(Num("2"), Lit("tools/list"), FALSE, Undef, NoBag)
    [] object = "{branch}" ->
         Request(Num("3"), Lit("tools/call"), TRUE, Lit("create_branch"),
                 [EmptyBag EXCEPT !.branchName = Str(<<"a">>)])
    [] object = Opening ->
         Request(Num("4"), Lit("tools/call"), TRUE, Lit("commit_changes"),
                 [EmptyBag EXCEPT !.message = Str(str)])
    [] object = "{nope}" ->
         Request(Num("5"), Lit("tools/call"), TRUE, Lit("nope"), EmptyBag)
    [] object = "{noargs}" ->
         Request(Num("6"), Lit("tools/call"), TRUE, Lit("create_branch"), EmptyBag)
    [] object = "{diff}" ->
         Request(Num("7"), Lit("tools/call"), TRUE, Lit("git_diff"),
                 [EmptyBag EXCEPT !.repo_path = Str(<<"/other">>)])
    [] object = "{merge}" ->
         Request(Num("9"), Lit("tools/call"), TRUE, Lit("merge_branch"),
                 [EmptyBag EXCEPT !.sourceBranch = Str(<<"a">>),
                                  !.targetBranch = Str(<<"t">>)])
    [] object = "{switch}" ->
         Request(Num("10"), Lit("tools/call"), TRUE, Lit("switch_branch"),
                 [EmptyBag EXCEPT !.branchName = Str(<<"x">>)])
    [] OTHER ->
         Request(Num("8"), Lit("foo"), FALSE, Undef, NoBag)

\* the characters a JSON string of the model can hold
StringChars == {"a", EAcute, Replacement}

\* JSON.parse(message): blanks around the document are skipped; the
\* document is null or an object
JSONparse(message) ==
  LET t == trim(message)
      n == Len(t)
  IN IF t = <<"null">> THEN [thrown |-> FALSE, err |-> NoError, val |-> JSONNull]
     ELSE IF n = 1 /\ t[1] \in Objects \cup RepoObjects
     THEN [thrown |-> FALSE, err |-> NoError, val |-> Document(t[1], <<>>)]
     ELSE IF /\ n >= 2 /\ t[1] = Opening /\ t[n] = Closing
             /\ \A i \in 2..(n - 1) : t[i] \in StringChars
     THEN [thrown |-> FALSE, err |-> NoError,
           val |-> Document(Opening, SubSeq(t, 2, n - 1))]
     ELSE [thrown |-> TRUE, err |-> Error(<<"Unexpected token in JSON">>),
           val |-> JSONNull]

---------------------------------------------------------------------------
(* The line-based server: schemas, tools and handleMessage *)

\* z.string().optional()
optionalString(v) == v = Undef \/ v.t = "string"
\* z.array(z.string()).optional()
optionalStrings(v) ==
  v = Undef \/ (v.t = "array" /\ \A i \in 1..Len(v.a) : v.a[i].t = "string")

\* tool.schema.parse(args) does not throw
schemaAccepts(name, args) ==
  /\ args.bag
  /\ CASE name = "create_branch" ->
            args.branchName.t = "string" /\ optionalString(args.fromBranch)
       [] name = "switch_branch" -> args.branchName.t = "string"
       [] name = "merge_branch" ->
            args.sourceBranch.t = "string" /\ optionalString(args.targetBranch)
       [] name = "create_worktree" ->
            args.path.t = "string" /\ optionalString(args.branch)
       [] name = "remove_worktree" -> args.path.t = "string"
       [] name = "commit_changes" ->
            args.message.t = "string" /\ optionalStrings(args.files)
       [] name \in {"push_changes", "pull_changes"} ->
            optionalString(args.remote) /\ optionalString(args.branch)
       [] name = "git_diff" ->
            /\ args.repo_path.t = "string" /\ optionalString(args.source)
            /\ optionalString(args.target) /\ optionalStrings(args.files)
       [] OTHER -> TRUE

\* the keys of the tools object
toolKeys ==
  <<"git_status", "create_branch", "switch_branch", "list_branches", "merge_branch",
    "create_worktree", "list_worktrees", "remove_worktree", "commit_changes",
    "push_changes", "pull_changes", "git_diff">>
\* names tools[name] finds on Object.prototype
inheritedKeys == {"constructor", "toString", "valueOf", "hasOwnProperty"}

\* a || b
orElse(a, b) == IF Falsy(a) THEN b ELSE a

\* tools[name].handler(args): the steps of its try block, run on the
\* module's git handle; git_diff alone constructs a handle of its own
handlerSteps(name, args) ==
  CASE name = "git_status" -> <<PrimStep("status", <<>>), RetStep(<<>>, "json", FALSE)>>
    [] name = "create_branch" ->
         IF ~ Falsy(args.fromBranch)
         THEN <<PrimStep("checkoutBranch", <<args.branchName, args.fromBranch>>),
                RetStep(<<"Branch '">> \o String(args.branchName)
                        \o <<"' created successfully">> \o <<" from '">>
                        \o String(args.fromBranch) \o <<"'">>, "none", FALSE)>>
         ELSE <<PrimStep("checkoutLocalBranch", <<args.branchName>>),
                RetStep(<<"Branch '">> \o String(args.branchName)
                        \o <<"' created successfully">>, "none", FALSE)>>
    [] name = "switch_branch" ->
         <<PrimStep("checkout", <<args.branchName>>),
           RetStep(<<"Switched to branch '">> \o String(args.branchName) \o <<"'">>,
                   "none", FALSE)>>
    [] name = "list_branches" -> <<PrimStep("branch", <<>>), RetStep(<<>>, "json", FALSE)>>
    [] name = "merge_branch" ->
         (IF ~ Falsy(args.targetBranch) THEN <<PrimStep("checkout", <<args.targetBranch>>)>>
          ELSE <<>>)
         \o <<PrimStep("merge", <<Arr(<<args.sourceBranch>>)>>),
              RetStep(<<"Merged '">> \o String(args.sourceBranch) \o <<"' into '">>
                      \o String(orElse(args.targetBranch, Lit("current branch")))
                      \o <<"'">>, "none", FALSE)>>
    [] name = "create_worktree" ->
         LET worktreeBranch ==
               orElse(args.branch,
                      orElse(Str(lastSegment(args.path.s)), Lit("worktree-branch")))
         IN <<PrimStep("raw", <<Arr(<<Lit("worktree"), Lit("add"), args.path,
                                      worktreeBranch>>)>>),
              RetStep(<<"Worktree created at '">> \o String(args.path)
                      \o <<"' on branch '">> \o String(worktreeBranch) \o <<"'">>,
                      "none", FALSE)>>
    [] name = "list_worktrees" ->
         <<PrimStep("raw", <<Arr(<<Lit("worktree"), Lit("list")>>)>>),
           RetStep(<<>>, "raw", FALSE)>>
    [] name = "remove_worktree" ->
         <<PrimStep("raw", <<Arr(<<Lit("worktree"), Lit("remove"), args.path>>)>>),
           RetStep(<<"Worktree at '">> \o String(args.path) \o <<"' removed successfully">>,
                   "none", FALSE)>>
    [] name = "commit_changes" ->
         <<IF HasFiles(args.files) THEN PrimStep("add", <<args.files>>)
           ELSE PrimStep("add", <<Lit(".")>>),
           PrimStep("commit", <<args.message>>),
           RetStep(<<"Changes committed: ">>, "commit", FALSE)>>
    [] name \in {"push_changes", "pull_changes"} ->
         LET remote == orElse(args.remote, Lit("origin"))
             p == IF name = "push_changes" THEN "push" ELSE "pull"
         IN <<IF ~ Falsy(args.branch) THEN PrimStep(p, <<remote, args.branch>>)
              ELSE PrimStep(p, <<>>),
              RetStep((IF name = "push_changes" THEN <<"Changes pushed to ">>
                       ELSE <<"Changes pulled from ">>)
                      \o String(remote)
                      \o (IF ~ Falsy(args.branch) THEN <<"/">> \o String(args.branch)
                          ELSE <<>>),
                      "none", FALSE)>>
    [] OTHER ->
         LET diffArgs ==
               (IF ~ Falsy(args.source) THEN <<args.source>> ELSE <<>>)
               \o (IF ~ Falsy(args.target) THEN <<args.target>> ELSE <<>>)
               \o (IF HasFiles(args.files) THEN <<Lit("--")>> \o args.files.a ELSE <<>>)
         IN <<HandleStep(String(args.repo_path)[1]),
              PrimStep("diff", <<Arr(diffArgs)>>),
              RetStep(<<>>, "diff", FALSE)>>

\* the prefix of the text the catch block of a tool's handler returns
handlerPrefix(name) ==
  CASE name = "git_status" -> "Git status"
    [] name = "create_branch" -> "Create branch"
    [] name = "switch_branch" -> "Switch branch"
    [] name = "list_branches" -> "List branches"
    [] name = "merge_branch" -> "Merge"
    [] name = "create_worktree" -> "Create worktree"
    [] name = "list_worktrees" -> "List worktrees"
    [] name = "remove_worktree" -> "Remove worktree"
    [] name = "commit_changes" -> "Commit"
    [] name = "push_changes" -> "Push"
    [] name = "pull_changes" -> "Pull"
    [] OTHER -> "Git diff"

\* tools[name].handler(args)
handler(name, args) == Try(handlerPrefix(name), handlerSteps(name, args))

\* the result member of a response
NoContent == [what |-> "none", isError |-> FALSE, text |-> <<>>, tools |-> <<>>]
Content(r) == [NoContent EXCEPT !.what = "content", !.isError = r.isError, !.text = r.text]

\* { jsonrpc: '2.0', id, result }
ResultResponse(id, result) ==
  [id |-> id, kind |-> "result", code |-> 0, message |-> <<>>, result |-> result]
\* { jsonrpc: '2.0', id, error: { code, message } }
ErrorResponse(id, code, message) ==
  [id |-> id, kind |-> "error", code |-> code, message |-> message, result |-> NoContent]

\* what handleMessage does with a message: its promise rejects (reject),
\* it returns a response without calling a tool (respond), or it calls
\* the handler of a tool and returns its result (tool)
Rejecting(e) ==
  [k |-> "reject", e |-> e, response |-> ErrorResponse(Undef, 0, <<>>),
   plan |-> Try("", <<>>)]
Responding(response) ==
  [k |-> "respond", e |-> NoError, response |-> response, plan |-> Try("", <<>>)]
Calling(plan) ==
  [k |-> "tool", e |-> NoError, response |-> ErrorResponse(Undef, 0, <<>>), plan |-> plan]

\* the catch block of handleMessage, without the id
methodErrorWithoutId(id, e) == Responding(ErrorResponse(Undef, -32000, e.message))

\* the catch block of handleMessage
methodError(id, e) == Responding(ErrorResponse(id, -32000, e.message))

\* handleMessage(message)
handleMessage(message) ==
  IF message.isNull
  THEN Rejecting(Error(<<"Cannot destructure property 'id' of 'message'">>))
  ELSE LET id == message.id
           method == message.method
           params == message.params
       IN CASE method = Lit("initialize") ->
                 Responding(ResultResponse(id, [NoContent EXCEPT !.what = "initialize"]))
            [] method = Lit("tools/list") ->
                 Responding(ResultResponse(id,
                   [NoContent EXCEPT !.what = "tools", !.tools = toolKeys]))
            [] method = Lit("tools/call") ->
                 IF ~ params.given
                 THEN methodError(id, Error(<<"Cannot destructure property 'name' of 'params'">>))
                 ELSE LET name == String(params.name)[1]
                          args == IF params.arguments.bag THEN params.arguments
                                  ELSE EmptyBag
                      IN IF name \notin {toolKeys[i] : i \in 1..Len(toolKeys)}
                                        \cup inheritedKeys
                         THEN methodError(id, Error(<<"Unknown tool: ", name>>))
                         ELSE IF name \in inheritedKeys
                         THEN methodError(id,
                                Error(<<"Cannot read properties of undefined (reading 'parse')">>))
                         ELSE IF ~ schemaAccepts(name, args)
                         THEN methodError(id, Error(<<"ZodError">>))
                         ELSE Calling(handler(name, args))
            [] OTHER ->
                 methodError(id, Error(<<"Unknown method: ">> \o String(method)))

---------------------------------------------------------------------------
(* The state of one executeTool call, and of one validator application *)

VARIABLES
  pc,        \* "idle", "await" (suspended at an await), "returned", "threw"
  tool,      \* the name executeTool was called with
  args,      \* its argument bag
  ip,        \* the step the call is suspended at (0: none)
  handles,   \* the roots of the handles constructed by the call
  primLog,   \* the primitives invoked by the call, each pending, ok or failed
  last,      \* the value the last primitive resolved with
  failed,    \* whether a statement of the call threw or a primitive rejected
  failure,   \* the value thrown or rejected
  result,    \* the result the call resolved with
  envAtCall, \* process.env.GIT_REPO_PATH as it was when the call was made
  vFn,       \* the validator applied on its own ("none": not yet)
  vIn,       \* its candidate
  vOut       \* its outcome

\* the state of the line-based server
VARIABLES
  rest,      \* the bytes the peer has written that have not been delivered yet
  received,  \* the bytes delivered so far, over all 'data' events
  buffer,    \* main's buffer
  loops,     \* the invocations of the 'data' handler, one per chunk
  stdout,    \* the responses written, in order
  trace      \* what the server did, in order: parse, dispatch, prim, settle, write

\* the repository the primitives act on, where it is followed
VARIABLES
  repo,       \* its checked-out branch and its staged paths
  repoAtCall  \* the repository as it was when the call was made

callVars == <<pc, tool, args, ip, handles, primLog, last, failed, failure, result,
              envAtCall>>
valVars == <<vFn, vIn, vOut>>
envVars == <<GIT_REPO_PATH, cwd, loaded, atStart>>
lineVars == <<rest, received, buffer, loops, stdout, trace>>
repoVars == <<repo, repoAtCall>>
vars == <<pc, tool, args, ip, handles, primLog, last, failed, failure, result,
          envAtCall, vFn, vIn, vOut, GIT_REPO_PATH, cwd, loaded, atStart,
          rest, received, buffer, loops, stdout, trace, repo, repoAtCall>>

NoResult == [isError |-> FALSE, text |-> <<>>]

\* how a return statement renders the value of the last primitive
Render(use, value) ==
  CASE use = "json" -> <<"JSON.stringify(", value, ")">>
    [] use = "raw" -> <<value>>
    [] use = "commit" -> <<value, ".commit">>
    [] use = "diff" -> IF value = "" THEN <<"No differences found">> ELSE <<value>>
    [] OTHER -> <<>>

\* error.message, without the instanceof test
ErrorTextMessageOnly(e) == IF e.isErr THEN e.message ELSE <<"undefined">>

\* error instanceof Error ? error.message : String(error)
ErrorText(e) == IF e.isErr THEN e.message ELSE String(e.value)

\* the catch block of a case; without a try block the value propagates
Catch(c, e, hs) ==
  IF c.try
  THEN [pc |-> "returned", ip |-> 0, handles |-> hs, started |-> <<>>,
        failed |-> TRUE, failure |-> e,
        result |-> [isError |-> TRUE, text |-> <<c.prefix, " error: ">> \o ErrorText(e)]]
  ELSE [pc |-> "threw", ip |-> 0, handles |-> hs, started |-> <<>>,
        failed |-> TRUE, failure |-> e, result |-> NoResult]

\* run the case c from step i up to its next await, return or throw
RECURSIVE Run(_, _, _, _)
Run(c, i, hs, value) ==
  LET st == c.steps[i] IN
  CASE st.k = "handle" -> Run(c, i + 1, Append(hs, st.root), value)
    [] st.k = "throw" -> Catch(c, st.e, hs)
    [] st.k = "prim" ->
         [pc |-> "await", ip |-> i, handles |-> hs,
          started |-> <<[p |-> st.p, pargs |-> st.pargs, st |-> "pending",
                         on |-> IF hs = <<>> THEN REPO_PATH ELSE hs[Len(hs)]]>>,
          failed |-> FALSE, failure |-> NoError, result |-> NoResult]
    [] OTHER ->
         [pc |-> "returned", ip |-> 0, handles |-> hs, started |-> <<>>,
          failed |-> FALSE, failure |-> NoError,
          result |-> [isError |-> st.isError, text |-> st.text \o Render(st.use, value)]]

---------------------------------------------------------------------------
(* The inputs of the model *)

ToolNames ==
  {"git_status", "create_branch", "switch_branch", "list_branches", "merge_branch",
   "create_worktree", "list_worktrees", "remove_worktree", "commit_changes",
   "push_changes", "pull_changes"}
OtherNames == {"unknown_tool", "git_diff", ""}

BranchVals ==
  {Undef, Null, Num("123"), Str(<<>>), Str(<<"a">>), Str(<<" ", "a", " ">>),
   Str(<<" ">>), Str(<<"a", ";">>), Str(<<".", ".">>), Str(<<"a", "\\">>)}
PathVals ==
  {Undef, Num("123"), Str(<<>>), Str(<<"a">>), Str(<<"a", "/", "a">>), Str(<<"a", "/">>),
   Str(<<"/", "a">>), Str(<<".", ".", "/", "a">>), Str(<<"a", "\\", "a">>),
   Str(<<"a", ":", "/">>), Str(<<"a", "|">>), Str(<<" ">>)}
MessageVals ==
  {Undef, Num("123"), Str(<<>>), Str(<<"a">>), Str(<<"a", "$">>), Str(<<".", ".">>),
   Str(<<"a", "\n", "a">>)}
FileVals ==
  {Null, Num("123"), Str(<<>>), Str(<<"a">>), Str(<<".", ".", "/", "a">>),
   Str(<<"/", "a">>), Str(<<"a", "&">>), Str(<<"a", "\\">>)}
FilesVals ==
  {Undef, Null, Num("123"), Str(<<"a">>)}
    \cup {Arr(a) : a \in UNION {[1..k -> FileVals] : k \in 0..MaxFiles}}
RemoteVals ==
  {Undef, Null, Str(<<"upstream">>), Str(<<"a", ";">>)}

ArgBags(name) ==
  {NoBag} \cup
  CASE name \in {"create_branch"} ->
         {[EmptyBag EXCEPT !.branchName = b, !.fromBranch = f] :
            b \in BranchVals, f \in BranchVals}
    [] name = "switch_branch" ->
         {[EmptyBag EXCEPT !.branchName = b] : b \in BranchVals}
    [] name = "merge_branch" ->
         {[EmptyBag EXCEPT !.sourceBranch = b, !.targetBranch = f] :
            b \in BranchVals, f \in BranchVals}
    [] name = "create_worktree" ->
         {[EmptyBag EXCEPT !.path = q, !.branch = b] : q \in PathVals, b \in BranchVals}
    [] name = "remove_worktree" ->
         {[EmptyBag EXCEPT !.path = q] : q \in PathVals}
    [] name = "commit_changes" ->
         {[EmptyBag EXCEPT !.message = m, !.files = f] :
            m \in MessageVals, f \in FilesVals}
    [] name \in {"push_changes", "pull_changes"} ->
         {[EmptyBag EXCEPT !.remote = r, !.branch = b] : r \in RemoteVals, b \in BranchVals}
    [] OTHER ->
         {EmptyBag, [EmptyBag EXCEPT !.branchName = Str(<<"a">>)]}

\* what a primitive resolves with, and what it rejects with
PrimValues == {"r1", "r2"}
Rejections ==
  {Error(<<"failed">>), NonError(Str(<<"String error">>)), NonError(Num("42")),
   NonError(Null)}

---------------------------------------------------------------------------
(* executeTool, one call at a time *)

\* the values of GIT_REPO_PATH and the working directory the process starts in
EnvVals == {Undef, Str(<<>>), Str(<<"/env">>)}
WorkingDir == "/cwd"

\* the module is loaded: REPO_PATH is computed from the environment
Load ==
  /\ GIT_REPO_PATH \in EnvVals /\ cwd = WorkingDir
  /\ atStart = GIT_REPO_PATH
  /\ loaded = envOrCwd(GIT_REPO_PATH, cwd)

\* no call is being made
NoCall ==
  /\ pc = "idle" /\ tool = "" /\ args = EmptyBag /\ ip = 0
  /\ handles = <<>> /\ primLog = <<>> /\ last = "none"
  /\ failed = FALSE /\ failure = NoError /\ result = NoResult
  /\ envAtCall = Undef
\* no validator is applied on its own
NoValidator == vFn = "none" /\ vIn = Undef /\ vOut = Ret(Undef)
\* the line-based server is not running
NoLines ==
  /\ rest = <<>> /\ received = <<>> /\ buffer = <<>> /\ loops = <<>>
  /\ stdout = <<>> /\ trace = <<>>
\* the repository at the start: a branch checked out, nothing staged
InitialRepo == [head |-> <<"main">>, staged |-> {}]
NoRepo == repo = InitialRepo /\ repoAtCall = InitialRepo

Init == Load /\ NoCall /\ NoValidator /\ NoLines /\ NoRepo

Settle(r, log) ==
  /\ pc' = r.pc /\ ip' = r.ip /\ handles' = r.handles
  /\ primLog' = log \o r.started
  /\ failed' = r.failed /\ failure' = r.failure /\ result' = r.result

\* executeTool(name, args) is called and runs to its first await or its end
Call ==
  /\ pc = "idle"
  /\ \E name \in ToolNames \cup OtherNames :
       \E a \in ArgBags(name) :
         \E hOk \in BOOLEAN :
           /\ tool' = name /\ args' = a /\ last' = "none"
           /\ envAtCall' = GIT_REPO_PATH
           /\ Settle(Run(executeTool(name, a, hOk), 1, <<>>, "none"), <<>>)
  /\ UNCHANGED <<repoVars, valVars, envVars, lineVars>>

MarkLast(log, st) == [log EXCEPT ![Len(log)].st = st]

\* the awaited primitive resolves; the call runs on to its next await or end
PrimResolve ==
  /\ pc = "await"
  /\ \E value \in PrimValues :
       /\ last' = value
       /\ Settle(Run(executeTool(tool, args, TRUE), ip + 1, handles, value),
                 MarkLast(primLog, "ok"))
  /\ UNCHANGED <<repoVars, tool, args, envAtCall, valVars, envVars, lineVars>>

\* the awaited primitive rejects; the catch block of the case runs
PrimReject ==
  /\ pc = "await"
  /\ \E e \in Rejections :
       Settle(Catch(executeTool(tool, args, TRUE), e, handles),
              MarkLast(primLog, "failed"))
  /\ UNCHANGED <<repoVars, tool, args, last, envAtCall, valVars, envVars,
                 lineVars>>

\* the caller has the outcome of the call; the next call can be made
Finish ==
  /\ pc \in {"returned", "threw"}
  /\ pc' = "idle" /\ tool' = "" /\ args' = EmptyBag /\ ip' = 0
  /\ handles' = <<>> /\ primLog' = <<>> /\ last' = "none"
  /\ failed' = FALSE /\ failure' = NoError /\ result' = NoResult
  /\ envAtCall' = Undef
  /\ UNCHANGED <<repoVars, valVars, envVars, lineVars>>

\* the environment variable is changed while the process runs; nothing in
\* the module reads it again
ChangeEnv ==
  /\ \E e \in EnvVals \ {GIT_REPO_PATH} : GIT_REPO_PATH' = e
  /\ UNCHANGED <<repoVars, callVars, valVars, cwd, loaded, atStart, lineVars>>

Next == Call \/ PrimResolve \/ PrimReject \/ Finish \/ ChangeEnv

Spec == Init /\ [][Next]_vars

---------------------------------------------------------------------------
(* The calls that change the repository, with the repository followed.     *)
(* A primitive that resolves has had the effect its name says: a checkout  *)
(* makes its branch the checked-out one, add stages its paths, commit      *)
(* leaves nothing staged; a primitive that rejects has changed nothing.    *)

\* the repository after the primitive p(pargs) has resolved
Effect(p, pargs, r) ==
  CASE p \in {"checkout", "checkoutLocalBranch", "checkoutBranch"} ->
         [r EXCEPT !.head = String(pargs[1])]
    [] p = "add" -> [r EXCEPT !.staged = @ \cup {pargs[1]}]
    [] p = "commit" -> [r EXCEPT !.staged = {}]
    [] OTHER -> r

RepoTools == {"switch_branch", "merge_branch", "commit_changes"}
\* the arguments of these calls: branches that exist or not, given with or
\* without whitespace, a commit of everything or of one path
RepoArgBags(name) ==
  CASE name = "switch_branch" ->
         {[EmptyBag EXCEPT !.branchName = b] :
            b \in {Str(<<"a">>), Str(<<"main">>), Str(<<" ">>)}}
    [] name = "merge_branch" ->
         {[EmptyBag EXCEPT !.sourceBranch = b, !.targetBranch = f] :
            b \in {Str(<<"a">>), Str(<<"a", ";">>)},
            f \in {Undef, Str(<<"a">>), Str(<<" ", "a", " ">>)}}
    [] OTHER ->
         {[EmptyBag EXCEPT !.message = m, !.files = f] :
            m \in {Str(<<"a">>), Str(<<>>)},
            f \in {Undef, Arr(<<Str(<<"a">>)>>), Arr(<<Str(<<".", ".">>)>>)}}

\* executeTool(name, args) is called for a tool that changes the repository
CallRepo ==
  /\ pc = "idle"
  /\ \E name \in RepoTools :
       \E a \in RepoArgBags(name) :
         /\ tool' = name /\ args' = a /\ last' = "none"
         /\ envAtCall' = GIT_REPO_PATH
         /\ Settle(Run(executeTool(name, a, TRUE), 1, <<>>, "none"), <<>>)
  /\ repoAtCall' = repo
  /\ UNCHANGED <<repo, valVars, envVars, lineVars>>

\* the awaited primitive resolves, with its effect on the repository
PrimResolveRepo ==
  /\ pc = "await"
  /\ \E value \in PrimValues :
       /\ last' = value
       /\ Settle(Run(executeTool(tool, args, TRUE), ip + 1, handles, value),
                 MarkLast(primLog, "ok"))
  /\ repo' = Effect(primLog[Len(primLog)].p, primLog[Len(primLog)].pargs, repo)
  /\ UNCHANGED <<repoAtCall, tool, args, envAtCall, valVars, envVars, lineVars>>

NextR == CallRepo \/ PrimResolveRepo \/ PrimReject \/ Finish

SpecR == Init /\ [][NextR]_vars

---------------------------------------------------------------------------
(* The validators on their own, over every string up to MaxLen *)

Candidates ==
  {Undef, Null, Num("123"), Num("0")} \cup {Str(s) : s \in StringsUpTo(MaxLen)}

InitV ==
  /\ GIT_REPO_PATH = Undef /\ cwd = WorkingDir /\ atStart = Undef
  /\ loaded = envOrCwd(GIT_REPO_PATH, cwd)
  /\ NoCall /\ NoLines /\ NoRepo
  /\ vFn = "none" /\ vIn \in Candidates /\ vOut = Ret(Undef)

Apply(fn, out) ==
  /\ vFn = "none"
  /\ vFn' = fn /\ vOut' = out
  /\ UNCHANGED <<repoVars, callVars, vIn, envVars, lineVars>>

ApplyValidatePath == Apply("validatePath", validatePath(vIn))
ApplyValidateBranchName == Apply("validateBranchName", validateBranchName(vIn))
ApplyValidateCommitMessage == Apply("validateCommitMessage", validateCommitMessage(vIn))
ApplyValidateFile == Apply("validateFile", validateFile(vIn))

NextV ==
  \/ ApplyValidatePath
  \/ ApplyValidateBranchName
  \/ ApplyValidateCommitMessage
  \/ ApplyValidateFile

SpecV == InitV /\ [][NextV]_vars

---------------------------------------------------------------------------
(* A branch name on its way from the request to the primitive: the         *)
(* validator on every string up to MaxLen, and the tools called with it    *)

\* the request handler calls executeTool with the candidate as branchName
CallWithCandidate ==
  /\ pc = "idle"
  /\ \E name \in {"create_branch", "switch_branch"} :
       \E a \in {[EmptyBag EXCEPT !.branchName = vIn]} :
         /\ tool' = name /\ args' = a /\ last' = "none"
         /\ envAtCall' = GIT_REPO_PATH
         /\ Settle(Run(executeTool(name, a, TRUE), 1, <<>>, "none"), <<>>)
  /\ UNCHANGED <<repoVars, valVars, envVars, lineVars>>

NextB ==
  \/ ApplyValidateBranchName
  \/ CallWithCandidate
  \/ PrimResolve
  \/ PrimReject
  \/ Finish

SpecB == InitV /\ [][NextB]_vars


---------------------------------------------------------------------------
(* The line-based server: main and its 'data' handler *)

\* JSON.stringify(response): a member whose value is undefined is left out
JSONstringify(response) ==
  [members |-> {"jsonrpc", response.kind}
                 \cup (IF response.id = Undef THEN {} ELSE {"id"}),
   id |-> response.id, kind |-> response.kind, code |-> response.code,
   message |-> response.message, result |-> response.result]

\* the response of the catch block of the 'data' handler
ParseError == ErrorResponse(Undef, -32700, <<"Parse error">>)

\* one entry of the record of what the server did: the text handed to
\* JSON.parse (parse), the call of handleMessage (dispatch), the invocation
\* of a primitive on a handle (prim), the response written (write)
Event(ev, c, line, text, p, on) ==
  [ev |-> ev, chunk |-> c, line |-> line, text |-> text, p |-> p, on |-> on]

\* stdout.write(JSON.stringify(response) + '\n') skipped for an error
writtenResultsOnly(acc, c, line, response) ==
  IF response.kind = "error" THEN acc
  ELSE [stdout |-> Append(acc.stdout, JSONstringify(response)),
        trace |-> Append(acc.trace, Event("write", c, line, <<>>, "", ""))]

\* stdout.write(JSON.stringify(response) + '\n')
written(acc, c, line, response) ==
  [stdout |-> Append(acc.stdout, JSONstringify(response)),
   trace |-> Append(acc.trace, Event("write", c, line, <<>>, "", ""))]

\* the primitives a run of a handler started, as entries of the record
started(acc, c, line, r) ==
  [acc EXCEPT !.trace =
     @ \o [n \in 1..Len(r.started) |->
                     Event("prim", c, line, <<>>, r.started[n].p, r.started[n].on)]]

\* the loop of chunk c suspended at step ip of the handler of message k
Suspended(k, step, hs, acc) ==
  [i |-> k, ip |-> step, hs |-> hs, stdout |-> acc.stdout, trace |-> acc.trace]
\* the loop has ended
Ended(acc) == [i |-> 0, ip |-> 0, hs |-> <<>>, stdout |-> acc.stdout, trace |-> acc.trace]

\* F applied to the value of v, which is computed once
With(v, F(_)) == CHOOSE out \in {F(x) : x \in {v}} : TRUE

RECURSIVE forOf(_, _, _, _, _)

\* handleMessage called without await: the loop goes on to the next message
\* while the primitive is pending
afterRunNotAwaited(c, messages, first, k, r, acc) ==
  With(IF r.pc = "await" THEN started(acc, c, first + k, r)
       ELSE written(acc, c, first + k,
                    ResultResponse(JSONparse(messages[k]).val.id, Content(r.result))),
       LAMBDA acc1 : forOf(c, messages, first, k + 1, acc1))

\* const response = await handleMessage(parsed), once the handler of the
\* tool has run up to its next await (the loop stays suspended) or to its
\* end (the response is written and the loop goes on)
afterRun(c, messages, first, k, r, acc) ==
  IF r.pc = "await"
  THEN Suspended(k, r.ip, r.handles, started(acc, c, first + k, r))
  ELSE With(written(acc, c, first + k,
                    ResultResponse(JSONparse(messages[k]).val.id, Content(r.result))),
            LAMBDA acc1 : forOf(c, messages, first, k + 1, acc1))

\* what the loop does with the response of handleMessage(parsed), or with
\* the value it threw: h is what handleMessage does up to its first await
afterDispatch(c, messages, first, k, h, acc) ==
  CASE h.k = "reject" ->
         With(written(acc, c, first + k, ParseError),
              LAMBDA acc1 : forOf(c, messages, first, k + 1, acc1))
    [] h.k = "respond" ->
         With(written(acc, c, first + k, h.response),
              LAMBDA acc1 : forOf(c, messages, first, k + 1, acc1))
    [] OTHER ->
         With(Run(h.plan, 1, <<>>, "none"),
              LAMBDA r : afterRun(c, messages, first, k, r, acc))

\* the try block of the loop once JSON.parse(message) has returned or
\* thrown p
afterParse(c, messages, first, k, p, acc) ==
  IF p.thrown
  THEN With(written(acc, c, first + k, ParseError),
            LAMBDA acc1 : forOf(c, messages, first, k + 1, acc1))
  ELSE With(handleMessage(p.val), LAMBDA h :
       With([acc EXCEPT !.trace =
               Append(@, Event("dispatch", c, first + k, <<>>, "", ""))],
            LAMBDA acc1 : afterDispatch(c, messages, first, k, h, acc1)))

\* for (const message of messages) { ... } of chunk c from message k on, up
\* to its next suspension or its end; first is the number of lines split off
\* before this chunk
forOf(c, messages, first, k, acc) ==
  IF k > Len(messages) THEN Ended(acc)
  ELSE IF trim(messages[k]) = <<>> THEN forOf(c, messages, first, k + 1, acc)
  ELSE With(JSONparse(messages[k]), LAMBDA p :
       With([acc EXCEPT !.trace =
               Append(@, Event("parse", c, first + k, messages[k], "", ""))],
            LAMBDA acc1 : afterParse(c, messages, first, k, p, acc1)))

\* the handler of the tool call the loop is suspended in
planOf(loop) == handleMessage(JSONparse(loop.messages[loop.i]).val).plan

---------------------------------------------------------------------------
(* The line-based server and its peer *)

\* the lines a peer writes
LineTexts ==
  {<<" ">>, <<Closing>>, <<"null">>, <<Opening, Lead, Cont, Closing>>}
    \cup {<<o>> : o \in Objects}
\* what a peer has written of a line it has not ended yet
Tails == {<<>>, <<Opening>>}

RECURSIVE StreamsOf(_)
StreamsOf(n) ==
  IF n = 0 THEN {<<>>}
  ELSE {l \o <<"\n">> \o s : l \in LineTexts, s \in StreamsOf(n - 1)}
Streams == {s \o t : s \in UNION {StreamsOf(n) : n \in 0..MaxLines}, t \in Tails}

\* what a primitive of the line-based server resolves and rejects with
LineValues == {"r1"}
LineRejections == {Error(<<"failed">>)}

InitL ==
  /\ GIT_REPO_PATH = Str(<<"/env">>) /\ cwd = WorkingDir
  /\ atStart = GIT_REPO_PATH /\ loaded = envOrCwd(GIT_REPO_PATH, cwd)
  /\ NoCall /\ NoValidator /\ NoRepo
  /\ rest \in Streams /\ received = <<>> /\ buffer = <<>> /\ loops = <<>>
  /\ stdout = <<>> /\ trace = <<>>

\* the number of lines split off so far
framed == IF loops = <<>> THEN 0
          ELSE loops[Len(loops)].first + Len(loops[Len(loops)].messages)

\* a 'data' handler that only stores its messages while the loop of an
\* earlier chunk is suspended
DataSerialized ==
  /\ rest # <<>> /\ Len(loops) < MaxChunks
  /\ \E n \in 1..Len(rest) :
       \E chunk \in {SubSeq(rest, 1, n)} :
         \E messages \in {split(buffer \o toString(chunk))} :
           \E r \in {IF \E b \in 1..Len(loops) : loops[b].i # 0
                      THEN Ended([stdout |-> stdout, trace |-> trace])
                      ELSE forOf(Len(loops) + 1, popped(messages), framed, 1,
                                 [stdout |-> stdout, trace |-> trace])} :
             /\ rest' = SubSeq(rest, n + 1, Len(rest))
             /\ received' = received \o chunk
             /\ buffer' = popOrEmpty(messages)
             /\ loops' = Append(loops, [messages |-> popped(messages),
                                        first |-> framed,
                                        i |-> r.i, ip |-> r.ip, hs |-> r.hs])
             /\ stdout' = r.stdout /\ trace' = r.trace
  /\ UNCHANGED <<repoVars, callVars, valVars, envVars>>

\* stdin emits 'data' with the next n bytes: the handler appends them to
\* the buffer, splits it, keeps the last piece and runs its loop up to the
\* first await on a primitive
Data ==
  /\ rest # <<>> /\ Len(loops) < MaxChunks
  /\ \E n \in 1..Len(rest) :
       \E chunk \in {SubSeq(rest, 1, n)} :
         \E messages \in {split(buffer \o toString(chunk))} :
           \E r \in {forOf(Len(loops) + 1, popped(messages), framed, 1,
                           [stdout |-> stdout, trace |-> trace])} :
             /\ rest' = SubSeq(rest, n + 1, Len(rest))
             /\ received' = received \o chunk
             /\ buffer' = popOrEmpty(messages)
             /\ loops' = Append(loops, [messages |-> popped(messages),
                                        first |-> framed,
                                        i |-> r.i, ip |-> r.ip, hs |-> r.hs])
             /\ stdout' = r.stdout /\ trace' = r.trace
  /\ UNCHANGED <<repoVars, callVars, valVars, envVars>>

\* the loop of chunk c after the run r of its handler
Resume(c, r) ==
  \E out \in {afterRun(c, loops[c].messages, loops[c].first, loops[c].i, r,
                        [stdout |-> stdout, trace |-> trace])} :
    /\ loops' = [loops EXCEPT ![c] = [@ EXCEPT !.i = out.i, !.ip = out.ip,
                                                !.hs = out.hs]]
    /\ stdout' = out.stdout /\ trace' = out.trace
    /\ UNCHANGED <<rest, received, buffer, callVars, valVars, envVars>>

\* the primitive a loop awaits resolves: its handler and its loop run on
LineResolve ==
  \E c \in 1..Len(loops) :
    /\ loops[c].i # 0
    /\ \E value \in LineValues :
         \E plan \in {planOf(loops[c])} :
           \E r \in {Run(plan, loops[c].ip + 1, loops[c].hs, value)} :
             Resume(c, r)
    /\ UNCHANGED repoVars

\* the primitive a loop awaits rejects: the catch block of its handler runs
LineReject ==
  \E c \in 1..Len(loops) :
    /\ loops[c].i # 0
    /\ \E e \in LineRejections :
         \E plan \in {planOf(loops[c])} :
           \E r \in {Catch(plan, e, loops[c].hs)} : Resume(c, r)
    /\ UNCHANGED repoVars

NextL == Data \/ LineResolve \/ LineReject

SpecL == InitL /\ [][NextL]_vars

\* the line-based server with complete lines only, where every primitive
\* eventually resolves or rejects
InitLF ==
  /\ GIT_REPO_PATH = Str(<<"/env">>) /\ cwd = WorkingDir
  /\ atStart = GIT_REPO_PATH /\ loaded = envOrCwd(GIT_REPO_PATH, cwd)
  /\ NoCall /\ NoValidator /\ NoRepo
  /\ rest \in UNION {StreamsOf(n) : n \in 0..MaxLiveLines}
  /\ received = <<>> /\ buffer = <<>> /\ loops = <<>>
  /\ stdout = <<>> /\ trace = <<>>

SpecLF == InitLF /\ [][NextL]_vars /\ WF_vars(LineResolve \/ LineReject)

\* the line-based server with the repository followed: requests that
\* check out a branch, in complete lines
RepoTexts == {<<o>> : o \in RepoObjects \cup {"{branch}"}}

RECURSIVE RepoStreamsOf(_)
RepoStreamsOf(n) ==
  IF n = 0 THEN {<<>>}
  ELSE {l \o <<"\n">> \o s : l \in RepoTexts, s \in RepoStreamsOf(n - 1)}

InitM ==
  /\ GIT_REPO_PATH = Str(<<"/env">>) /\ cwd = WorkingDir
  /\ atStart = GIT_REPO_PATH /\ loaded = envOrCwd(GIT_REPO_PATH, cwd)
  /\ NoCall /\ NoValidator /\ NoRepo
  /\ rest \in UNION {RepoStreamsOf(n) : n \in 0..MaxLiveLines}
  /\ received = <<>> /\ buffer = <<>> /\ loops = <<>>
  /\ stdout = <<>> /\ trace = <<>>

\* the primitive a loop awaits resolves, with its effect on the repository
LineResolveRepo ==
  \E c \in 1..Len(loops) :
    /\ loops[c].i # 0
    /\ \E value \in LineValues :
         \E plan \in {planOf(loops[c])} :
           /\ \E r \in {Run(plan, loops[c].ip + 1, loops[c].hs, value)} :
                Resume(c, r)
           /\ repo' = Effect(plan.steps[loops[c].ip].p,
                             plan.steps[loops[c].ip].pargs, repo)
    /\ UNCHANGED repoAtCall

NextM == Data \/ LineResolveRepo \/ LineReject

SpecM == InitM /\ [][NextM]_vars

---------------------------------------------------------------------------
(* What the claims say, in their own words: the character list and the     *)
(* string tests below are those of the claims, written without the         *)
(* operators that model the code.                                          *)

ListedChars == {"<", ">", "|", "&", ";", "$", Backtick}
HasListedChar(s) == \E i \in 1..Len(s) : s[i] \in ListedChars
HasDotDot(s) == \E i \in 1..(Len(s) - 1) : s[i] = "." /\ s[i + 1] = "."
HasBackslash(s) == \E i \in 1..Len(s) : s[i] = "\\"
Begins(s, c) == s # <<>> /\ s[1] = c
IsStr(v) == v.t = "string"

TraversalError == Error(<<"Invalid path: path traversal not allowed">>)
DangerousError(fn) ==
  CASE fn = "validatePath" -> Error(<<"Invalid path: dangerous characters not allowed">>)
    [] fn = "validateBranchName" ->
         Error(<<"Invalid branch name: dangerous characters not allowed">>)
    [] OTHER -> Error(<<"Invalid commit message: dangerous characters not allowed">>)

Validators == {"validatePath", "validateBranchName", "validateCommitMessage"}

\* C4: validatePath throws 'Invalid path: path traversal not allowed' for
\* every string that contains '..' and for every string that begins with
\* '/', whatever else the string contains.
C4_TraversalMessage ==
  (vFn = "validatePath" /\ IsStr(vIn) /\ (HasDotDot(vIn.s) \/ Begins(vIn.s, "/")))
    => (vOut.thrown /\ vOut.err = TraversalError)

\* a candidate with '..' and a listed character gets the traversal message
C4_Witness ==
  /\ vFn = "validatePath" /\ vIn = Str(<<".", ".", ";">>)
  /\ vOut.thrown /\ vOut.err = TraversalError

\* C5 as stated: every string with a listed character fails in each of the
\* three validators with that validator's 'dangerous characters' message,
\* whatever else it contains.
C5_AlwaysDangerousMessage ==
  (vFn \in Validators /\ IsStr(vIn) /\ HasListedChar(vIn.s))
    => (vOut.thrown /\ vOut.err = DangerousError(vFn))

\* C5 amended: every string with a listed character fails in each of the
\* three validators; validateBranchName and validateCommitMessage give
\* their 'dangerous characters' message, validatePath gives it unless the
\* string contains '..', begins with '/' or contains a backslash, and
\* then gives the path traversal message.
C5_DangerousOrTraversal ==
  (vFn \in Validators /\ IsStr(vIn) /\ HasListedChar(vIn.s))
    => /\ vOut.thrown
       /\ vOut.err =
            IF vFn = "validatePath"
               /\ (HasDotDot(vIn.s) \/ Begins(vIn.s, "/") \/ HasBackslash(vIn.s))
            THEN TraversalError
            ELSE DangerousError(vFn)

\* a path with a listed character and a backslash gets the traversal message
C5_Witness ==
  /\ vFn = "validatePath" /\ vIn = Str(<<"|", "\\">>)
  /\ vOut.thrown /\ vOut.err = TraversalError

\* what C6 lists as the rejected candidates
C6_Listed(v) ==
  \/ ~ IsStr(v)
  \/ v.s = <<>>
  \/ HasDotDot(v.s)
  \/ Begins(v.s, "/") \/ Begins(v.s, "\\")
  \/ (Len(v.s) >= 2 /\ v.s[1] \in Letters /\ v.s[2] = ":")
  \/ HasListedChar(v.s)

C6_Rejected(v) ==
  \/ ~ IsStr(v)
  \/ v.s = <<>>
  \/ HasDotDot(v.s)
  \/ Begins(v.s, "/")
  \/ HasBackslash(v.s)
  \/ HasListedChar(v.s)

---------------------------------------------------------------------------
(* The dispatcher's claims *)

\* the prefix each tool's failures carry, as C1 lists them
ListedPrefix(name) ==
  CASE name = "git_status" -> "Git status"
    [] name = "create_branch" -> "Create branch"
    [] name = "switch_branch" -> "Switch branch"
    [] name = "list_branches" -> "List branches"
    [] name = "merge_branch" -> "Merge"
    [] name = "create_worktree" -> "Create worktree"
    [] name = "list_worktrees" -> "List worktrees"
    [] name = "remove_worktree" -> "Remove worktree"
    [] name = "commit_changes" -> "Commit"
    [] name = "push_changes" -> "Push"
    [] OTHER -> "Pull"

\* the message of a failure: an Error's message, any other value as text
FailureMessage(e) ==
  IF e.isErr THEN e.message
  ELSE CASE e.value.t = "null" -> <<"null">>
         [] e.value.t = "undefined" -> <<"undefined">>
         [] OTHER -> e.value.s

\* C1: for each of the eleven tools and every argument bag executeTool
\* never throws; when handle construction, a validator or a primitive
\* fails it resolves to isError true with the text '<prefix> error:
\* <message>', the prefix being the tool's own and a value that is not an
\* Error being stringified; the eleven prefixes are pairwise distinct; a
\* result produced without a failure carries no isError.
C1_NeverThrows ==
  /\ tool \in ToolNames =>
       /\ pc # "threw"
       /\ pc = "returned" =>
            IF failed
            THEN result = [isError |-> TRUE,
                           text |-> <<ListedPrefix(tool), " error: ">>
                                      \o FailureMessage(failure)]
            ELSE ~ result.isError
       /\ (\E i \in 1..Len(primLog) : primLog[i].st = "failed")
            => (pc = "returned" /\ failed /\ result.isError)
  /\ \A n, m \in ToolNames :
       n # m => executeTool(n, EmptyBag, TRUE).prefix # executeTool(m, EmptyBag, TRUE).prefix

\* git_status whose primitive rejected with a string
C1_Witness ==
  /\ pc = "returned" /\ tool = "git_status"
  /\ failure = NonError(Str(<<"String error">>))
  /\ result = [isError |-> TRUE, text |-> <<"Git status", " error: ", "String error">>]

ValidatingTools ==
  {"create_branch", "switch_branch", "merge_branch", "create_worktree",
   "remove_worktree", "commit_changes"}

\* an optional argument that is given (truthy) and that its validator rejects
RejectedIfGiven(v) == ~ Falsy(v) /\ validateBranchName(v).thrown

\* a call one of whose validated arguments is rejected
C2_Rejected(name, a) ==
  CASE name = "create_branch" ->
         validateBranchName(a.branchName).thrown \/ RejectedIfGiven(a.fromBranch)
    [] name = "switch_branch" -> validateBranchName(a.branchName).thrown
    [] name = "merge_branch" ->
         validateBranchName(a.sourceBranch).thrown \/ RejectedIfGiven(a.targetBranch)
    [] name = "create_worktree" ->
         validatePath(a.path).thrown \/ RejectedIfGiven(a.branch)
    [] name = "remove_worktree" -> validatePath(a.path).thrown
    [] name = "commit_changes" ->
         \/ validateCommitMessage(a.message).thrown
         \/ (a.files.t = "array"
             /\ \E i \in 1..Len(a.files.a) : validateFile(a.files.a[i]).thrown)
    [] OTHER -> FALSE

\* C2: in a call of a validating tool one of whose validated arguments is
\* rejected, no version-control primitive is invoked at any point, and
\* the call fails.
C2_NoPrimitiveWhenRejected ==
  (pc # "idle" /\ tool \in ValidatingTools /\ args.bag /\ C2_Rejected(tool, args))
    => (primLog = <<>> /\ pc = "returned" /\ result.isError)

\* merge_branch with a valid target and an invalid source checked out nothing
C2_Witness ==
  /\ pc = "returned" /\ tool = "merge_branch" /\ handles # <<>>
  /\ args.sourceBranch = Str(<<"a", ";">>) /\ args.targetBranch = Str(<<"a">>)
  /\ primLog = <<>>

\* a value handed to a primitive holds no string with a listed character
NoListedChar(v) ==
  /\ IsStr(v) => ~ HasListedChar(v.s)
  /\ \A i \in 1..Len(v.a) : IsStr(v.a[i]) => ~ HasListedChar(v.a[i].s)

\* C3: no string with one of the listed characters is ever passed to a
\* version-control primitive, by any of the eleven tools, push_changes
\* and pull_changes included.
C3_NoListedCharReachesPrimitive ==
  \A i \in 1..Len(primLog) :
    \A j \in 1..Len(primLog[i].pargs) : NoListedChar(primLog[i].pargs[j])

\* an element of files that C7 lists as offending
C7_Listed(v) ==
  \/ ~ IsStr(v)
  \/ HasDotDot(v.s) \/ Begins(v.s, "/") \/ HasListedChar(v.s)

\* an element of files that the call rejects
C7_Offending(v) == C7_Listed(v) \/ HasBackslash(v.s)

\* the message names the entry v: it ends with the text of v
C7_Names(msg, v) ==
  LET txt == IF IsStr(v) \/ v.t = "number" THEN v.s ELSE <<v.t>>
  IN /\ txt # <<>> /\ Len(msg) >= Len(txt)
     /\ SubSeq(msg, Len(msg) - Len(txt) + 1, Len(msg)) = txt

\* a commit_changes call with a handle, a valid message and a non-empty
\* files list
C7_Case ==
  /\ pc # "idle" /\ tool = "commit_changes" /\ args.bag /\ handles # <<>>
  /\ ~ validateCommitMessage(args.message).thrown
  /\ args.files.t = "array" /\ args.files.a # <<>>

\* C7 as stated: with a listed offending element in files the call fails
\* with 'Commit error: ...', the message naming an offending entry, and
\* neither add nor commit is invoked.
C7_MessageNamesEntry ==
  (C7_Case /\ \E i \in 1..Len(args.files.a) : C7_Listed(args.files.a[i]))
    => /\ pc = "returned" /\ result.isError /\ primLog = <<>>
       /\ SubSeq(result.text, 1, 2) = <<"Commit", " error: ">>
       /\ \E i \in 1..Len(args.files.a) :
            /\ C7_Offending(args.files.a[i])
            /\ C7_Names(result.text, args.files.a[i])

\* C7 amended: commit_changes with a handle, a valid message and a
\* non-empty files list validates the whole list before staging; if any
\* element is not a string, or contains '..', begins with '/' or contains
\* a listed character, the call fails and neither add nor commit is
\* invoked, even when earlier elements are valid; the text is 'Commit
\* error: Invalid file path: <entry>' for the first rejected element when
\* that is a string (an element with a backslash is rejected too) and
\* 'Commit error: File paths must be strings', which does not name the
\* entry, when it is not a string.
C7_FirstRejectedEntry ==
  (C7_Case /\ \E i \in 1..Len(args.files.a) : C7_Listed(args.files.a[i]))
    => /\ pc = "returned" /\ primLog = <<>>
       /\ LET f == args.files.a
              first == CHOOSE i \in 1..Len(f) :
                         C7_Offending(f[i]) /\ \A j \in 1..(i - 1) : ~ C7_Offending(f[j])
          IN result =
               [isError |-> TRUE,
                text |-> <<"Commit", " error: ">>
                         \o (IF IsStr(f[first]) THEN <<"Invalid file path: ">> \o f[first].s
                             ELSE <<"File paths must be strings">>)]

\* files ['a', 123]: the failure does not name 123
C7_Witness ==
  /\ pc = "returned" /\ tool = "commit_changes"
  /\ args.files = Arr(<<Str(<<"a">>), Num("123")>>)
  /\ result = [isError |-> TRUE,
               text |-> <<"Commit", " error: ", "File paths must be strings">>]
  /\ primLog = <<>>

\* C8: for every name that is not one of the eleven and every argument
\* bag, executeTool returns isError true with the text 'Unknown tool:
\* <name>', constructs no handle and invokes no primitive.
C8_UnknownTool ==
  (pc # "idle" /\ tool \notin ToolNames)
    => /\ pc = "returned"
       /\ result = [isError |-> TRUE, text |-> <<"Unknown tool: ", tool>>]
       /\ handles = <<>> /\ primLog = <<>>

\* git_diff, called with arguments, is answered as unknown
C8_Witness ==
  /\ pc = "returned" /\ tool = "git_diff" /\ args.branchName = Str(<<"a">>)
  /\ result.isError /\ handles = <<>>

\* the remote a push or pull is meant for
C9_EffectiveRemote(a) == IF a.remote = Undef THEN Str(<<"origin">>) ELSE a.remote

\* C9: every push_changes (pull_changes) call invokes push (pull) with
\* the effective remote first, the remote argument when given and
\* 'origin' otherwise, followed by the branch when one is given; the
\* remote named in the success text is the one the primitive was invoked
\* with.
C9_RemoteIsFirstArgument ==
  (tool \in {"push_changes", "pull_changes"} /\ primLog # <<>>)
    => LET inv == primLog[1]
           remote == C9_EffectiveRemote(args)
       IN /\ inv.p = (IF tool = "push_changes" THEN "push" ELSE "pull")
          /\ inv.pargs = IF Falsy(args.branch) THEN <<remote>> ELSE <<remote, args.branch>>
          /\ (pc = "returned" /\ ~ result.isError)
               => SubSeq(result.text, 2, 1 + Len(String(inv.pargs[1]))) = String(inv.pargs[1])

\* the invocations C10 expects of a call, in order
C10_Expected(name, a) ==
  CASE name = "merge_branch" ->
         (IF Falsy(a.targetBranch) THEN <<>>
          ELSE <<[p |-> "checkout", pargs |-> <<Str(trim(a.targetBranch.s))>>]>>)
         \o <<[p |-> "merge", pargs |-> <<Arr(<<Str(trim(a.sourceBranch.s))>>)>>]>>
    [] OTHER ->
         <<[p |-> "add",
            pargs |-> <<IF a.files.t = "array" /\ a.files.a # <<>> THEN a.files
                        ELSE Str(<<".">>)>>],
           [p |-> "commit", pargs |-> <<a.message>>]>>

\* C10: in merge_branch and commit_changes the second primitive starts
\* only after the first has completed successfully and never when the
\* first fails: merge_branch invokes checkout(target) then merge([source])
\* with a targetBranch and merge alone without one; commit_changes invokes
\* add (the given files, '.' when files is absent or empty) then
\* commit(message).
C10_SecondAfterFirst ==
  (tool \in {"merge_branch", "commit_changes"})
    => LET exp == C10_Expected(tool, args)
       IN /\ Len(primLog) <= Len(exp)
          /\ \A i \in 1..Len(primLog) :
               /\ primLog[i].p = exp[i].p /\ primLog[i].pargs = exp[i].pargs
               /\ i < Len(primLog) => primLog[i].st = "ok"
          /\ (pc = "returned" /\ ~ result.isError)
               => (Len(primLog) = Len(exp) /\ \A i \in 1..Len(primLog) : primLog[i].st = "ok")
          /\ pc = "await" => primLog[Len(primLog)].st = "pending"

\* merge_branch with a target: merge is pending, the checkout is done
C10_Witness ==
  /\ tool = "merge_branch" /\ pc = "await" /\ Len(primLog) = 2
  /\ primLog[1].p = "checkout" /\ primLog[1].st = "ok"
  /\ primLog[2].p = "merge" /\ primLog[2].st = "pending"

---------------------------------------------------------------------------
\* a branch name the validator accepts
C20_Valid(v) == IsStr(v) /\ ~ validateBranchName(v).thrown

\* the text create_branch answers with when no source branch is named
C20_Text(name) == <<"Branch '">> \o name \o <<"' created successfully">>

\* C20: create_branch with a valid branchName invokes exactly one
\* primitive: checkoutLocalBranch(name) when no fromBranch is supplied,
\* with the success text "Branch '<name>' created successfully", and
\* checkoutBranch(name, from) when a (valid) fromBranch is supplied, with
\* the same text followed by " from '<from>'"; the names are the validated
\* ones.
C20_CreateBranch ==
  (/\ tool = "create_branch" /\ args.bag /\ handles # <<>>
   /\ C20_Valid(args.branchName)
   /\ (args.fromBranch = Undef \/ C20_Valid(args.fromBranch)))
    => LET name == trim(args.branchName.s)
           succeeded == pc = "returned" /\ ~ failed
       IN /\ Len(primLog) = 1
          /\ IF args.fromBranch = Undef
             THEN /\ primLog[1].p = "checkoutLocalBranch"
                  /\ primLog[1].pargs = <<Str(name)>>
                  /\ succeeded
                       => result = [isError |-> FALSE, text |-> C20_Text(name)]
             ELSE LET from == trim(args.fromBranch.s)
                  IN /\ primLog[1].p = "checkoutBranch"
                     /\ primLog[1].pargs = <<Str(name), Str(from)>>
                     /\ succeeded
                          => result = [isError |-> FALSE,
                                       text |-> C20_Text(name) \o <<" from '">>
                                                \o from \o <<"'">>]

\* a branch was created from a named branch, both names given with blanks
C20_Witness ==
  /\ tool = "create_branch" /\ pc = "returned" /\ ~ failed
  /\ args.branchName = Str(<<" ", "a", " ">>) /\ args.fromBranch = Str(<<"a">>)
  /\ primLog[1].p = "checkoutBranch"

---------------------------------------------------------------------------
\* the path an environment value names
C19_PathOf(v) == IF v.s = <<>> THEN "" ELSE v.s[1]

---------------------------------------------------------------------------
(* The line-based server, in the words of the claims *)

\* the lines split off so far, in arrival order, and the chunk of each
Arrived == 1..framed
ChunkOf(n) == CHOOSE c \in 1..Len(loops) :
                loops[c].first < n /\ n <= loops[c].first + Len(loops[c].messages)
TextOf(n) == loops[ChunkOf(n)].messages[n - loops[ChunkOf(n)].first]

\* the places of the record where something of a kind happened for a line
At(ev, n) == {a \in 1..Len(trace) : trace[a].ev = ev /\ trace[a].line = n}
\* a line that is not blank
NonBlank(n) == \E i \in 1..Len(TextOf(n)) : TextOf(n)[i] \notin {" ", "\n"}
\* a line that carries a request: a JSON object
IsRequest(n) == NonBlank(n) /\ ~ JSONparse(TextOf(n)).thrown
                  /\ ~ JSONparse(TextOf(n)).val.isNull

\* C11: dispatches are initiated in the order in which their request
\* lines arrived, across all chunks: when handleMessage is called for a
\* line, it has been called before for every request line that arrived
\* earlier.
C11_DispatchInArrivalOrder ==
  \A n \in Arrived : \A m \in 1..(n - 1) :
    (IsRequest(m) /\ IsRequest(n))
      => \A b \in At("dispatch", n) : \E a \in At("dispatch", m) : a < b

\* C12: the lines of one chunk are processed strictly one after another:
\* a line is not parsed or dispatched, and its response is not written,
\* before the response of every earlier non-blank line of its chunk has
\* been written, so the responses of a chunk appear in the order of its
\* lines.
C12_OneAfterAnother ==
  \A n \in Arrived : \A m \in 1..(n - 1) :
    (ChunkOf(m) = ChunkOf(n) /\ NonBlank(m))
      => \A b \in At("parse", n) \cup At("dispatch", n) \cup At("write", n) :
           \E a \in At("write", m) : a < b

\* two tool calls of one chunk have both invoked a primitive and the
\* second has been answered
C12_Witness ==
  \E n \in Arrived :
    /\ n >= 2 /\ ChunkOf(n - 1) = ChunkOf(n)
    /\ At("prim", n - 1) # {} /\ At("prim", n) # {} /\ At("write", n) # {}

\* a non-blank line whose response has not been written
Unanswered(n) == NonBlank(n) /\ At("write", n) = {}

\* C13: tool calls are not serialized across chunks: whatever the other
\* chunks are doing, the first unanswered line of every chunk is in flight
\* (its handler has invoked a primitive and its loop awaits it); nothing
\* makes a chunk wait for another, so two calls against the same root can
\* be in flight at once.
C13_NoSerialization ==
  \A c \in 1..Len(loops) :
    LET waiting == {n \in Arrived : ChunkOf(n) = c /\ Unanswered(n)}
    IN waiting # {}
         => LET n == CHOOSE x \in waiting : \A y \in waiting : x <= y
            IN At("prim", n) # {} /\ loops[c].i = n - loops[c].first

\* two create_branch calls delivered in two chunks have both invoked their
\* primitive on the configured root and neither has been answered
C13_Witness ==
  /\ Len(loops) = 2 /\ loops[1].i # 0 /\ loops[2].i # 0
  /\ \A c \in 1..2 :
       LET n == loops[c].first + loops[c].i
       IN /\ TextOf(n) = <<"{branch}">> /\ Unanswered(n)
          /\ \E a \in At("prim", n) :
               trace[a].p = "checkoutLocalBranch" /\ trace[a].on = REPO_PATH

\* the input so far as text, cut at its newlines: the newline-terminated
\* lines, and what follows the last newline
C14_Pieces == split(toString(received))
C14_Lines == popped(C14_Pieces)
\* a text that is not blank
C14_NonBlank(text) == \E i \in 1..Len(text) : text[i] \notin {" ", "\n"}

\* C14: line framing is independent of chunking: the lines split off are
\* the newline-terminated lines of the concatenated input, the texts
\* handed to JSON.parse are its non-blank ones, each at most once and,
\* when no loop is suspended, exactly once, and what follows the last
\* newline is in the buffer.
C14_FramingIndependentOfChunking ==
  /\ framed = Len(C14_Lines)
  /\ buffer = C14_Pieces[Len(C14_Pieces)]
  /\ \A n \in Arrived :
       /\ TextOf(n) = C14_Lines[n]
       /\ Cardinality(At("parse", n)) <= 1
       /\ \A a \in At("parse", n) :
            trace[a].text = C14_Lines[n] /\ C14_NonBlank(C14_Lines[n])
       /\ (C14_NonBlank(C14_Lines[n]) /\ loops[ChunkOf(n)].i = 0)
            => Cardinality(At("parse", n)) = 1

\* the response written for a line: the k-th line of the output, when the
\* write is the k-th of the record
C15_ResponseOf(n) ==
  LET a == CHOOSE x \in At("write", n) : TRUE
  IN stdout[Cardinality({b \in 1..a : trace[b].ev = "write"})]

\* never two responses for a line, none for a blank line, and the id of
\* the request in the response of a line that parsed as a JSON object
C15_AtMostOne ==
  \A n \in Arrived :
    /\ Cardinality(At("write", n)) <= 1
    /\ ~ NonBlank(n) => At("write", n) = {}
    /\ (IsRequest(n) /\ At("write", n) # {})
         => /\ C15_ResponseOf(n).id = JSONparse(TextOf(n)).val.id
            /\ "id" \in C15_ResponseOf(n).members

\* C15: when every primitive eventually resolves or rejects, every
\* newline-terminated non-blank line eventually has exactly one response
\* on the output, never none and never two; the response of a line that
\* parsed as a JSON object carries the id of the request; blank lines
\* have no response.
C15_OneResponsePerLine ==
  /\ [] C15_AtMostOne
  /\ \A n \in 1..MaxLiveLines :
       (n \in Arrived /\ NonBlank(n)) ~> (Cardinality(At("write", n)) = 1)

\* two tool calls have each awaited a primitive and each has its one
\* response, the later one a result with the id of its request
C15_Witness ==
  \E n \in Arrived :
    /\ n >= 2 /\ At("prim", n - 1) # {} /\ At("prim", n) # {}
    /\ Cardinality(At("write", n - 1)) = 1 /\ Cardinality(At("write", n)) = 1
    /\ C15_ResponseOf(n).kind = "result"
    /\ C15_ResponseOf(n).id = JSONparse(TextOf(n)).val.id

\* the JSON documents a line can hold: null, an object written as one run
\* of bytes, or the commit request with its string of any characters
C16_WellFormed(text) ==
  \/ text = <<"null">>
  \/ Len(text) = 1 /\ text[1] \in Objects
  \/ /\ Len(text) >= 2 /\ text[1] = Opening /\ text[Len(text)] = Closing
     /\ \A i \in 2..(Len(text) - 1) : text[i] \in {"a", EAcute, Replacement}
\* the methods the server knows
C16_Methods == {Lit("initialize"), Lit("tools/list"), Lit("tools/call")}
\* a line that holds a JSON object whose method is none of them
C16_OtherMethod(text) ==
  Len(text) = 1 /\ text[1] \in Objects /\ Document(text[1], <<>>).method \notin C16_Methods

\* C16: a non-blank line that is not well-formed JSON is answered with an
\* error of code -32700, message 'Parse error' and no id, and nothing is
\* dispatched for it; a JSON object line whose method is none of
\* initialize, tools/list, tools/call is answered with an error of code
\* -32000 that has the id of the request and the message 'Unknown method: '
\* followed by the method. Either answer is written as soon as the line has
\* been parsed.
C16_ParseAndMethodErrors ==
  \A n \in Arrived :
    /\ (NonBlank(n) /\ ~ C16_WellFormed(TextOf(n))) =>
         /\ At("dispatch", n) = {}
         /\ At("parse", n) # {} => At("write", n) # {}
         /\ At("write", n) # {} =>
              /\ C15_ResponseOf(n).kind = "error"
              /\ C15_ResponseOf(n).code = -32700
              /\ C15_ResponseOf(n).message = <<"Parse error">>
              /\ "id" \notin C15_ResponseOf(n).members
    /\ C16_OtherMethod(TextOf(n)) =>
         /\ At("parse", n) # {} => At("write", n) # {}
         /\ At("write", n) # {} =>
              /\ C15_ResponseOf(n).kind = "error"
              /\ C15_ResponseOf(n).code = -32000
              /\ C15_ResponseOf(n).message =
                   <<"Unknown method: ">> \o Document(TextOf(n)[1], <<>>).method.s
              /\ "id" \in C15_ResponseOf(n).members
              /\ C15_ResponseOf(n).id = Document(TextOf(n)[1], <<>>).id

\* a line that is not JSON and a request with the method foo have both
\* been answered
C16_Witness ==
  \E n, m \in Arrived :
    /\ TextOf(n) = <<Closing>> /\ At("write", n) # {}
    /\ C15_ResponseOf(n).code = -32700
    /\ TextOf(m) = <<"{foo}">> /\ At("write", m) # {}
    /\ C15_ResponseOf(m).message = <<"Unknown method: ", "foo">>
    /\ C15_ResponseOf(m).id = Num("8")

\* a line that holds a tools/call request
C17_ToolCall(text) ==
  /\ C16_WellFormed(text) /\ text # <<"null">>
  /\ Document(text[1], <<>>).method = Lit("tools/call")
\* the names of the actions, as the texts of failures begin with them
C17_ActionNames ==
  {"Git status", "Create branch", "Switch branch", "List branches", "Merge",
   "Create worktree", "List worktrees", "Remove worktree", "Commit", "Push",
   "Pull", "Git diff"}

\* C17 as stated: the response written for a tools/call request is always
\* a result, never a JSON-RPC error object, whatever the reason of a
\* failure (a primitive that failed, an unknown tool name, arguments the
\* schema of the tool rejects); the result of a failed call has
\* isError:true and a text that begins with the name of the action.
C17_FailuresAreResults ==
  \A n \in Arrived :
    (C17_ToolCall(TextOf(n)) /\ At("write", n) # {}) =>
      /\ C15_ResponseOf(n).kind = "result"
      /\ C15_ResponseOf(n).result.what = "content"
      /\ C15_ResponseOf(n).result.isError =>
           /\ C15_ResponseOf(n).result.text # <<>>
           /\ C15_ResponseOf(n).result.text[1] \in C17_ActionNames

\* C18 as stated: every primitive invoked for a tools/call request runs on
\* a handle bound to the configured root, the value of GIT_REPO_PATH at
\* start or else the working directory, whatever the tool and whatever the
\* arguments of the request.
C18_PrimitivesOnConfiguredRoot ==
  LET root == IF atStart # Undef THEN C19_PathOf(atStart) ELSE cwd
  IN \A a \in 1..Len(trace) : trace[a].ev = "prim" => trace[a].on = root

---------------------------------------------------------------------------
(* create_worktree and the name of its branch *)

\* a path validatePath returns
C21_ValidPath(v) == IsStr(v) /\ ~ validatePath(v).thrown
\* the part of a path after its last '/', the whole path without one
C21_AfterLastSlash(path) ==
  LET slashes == {k \in 1..Len(path) : path[k] = "/"}
  IN IF slashes = {} THEN path
     ELSE SubSeq(path, (CHOOSE k \in slashes : \A j \in slashes : j <= k) + 1, Len(path))
\* the arguments of the primitive that adds a worktree on a new branch
C21_WorktreeAdd(branch, path) ==
  <<Arr(<<Lit("worktree"), Lit("add"), Lit("-b"), Str(branch), Str(path)>>)>>

\* C21: create_worktree with a valid path and no branch argument names the
\* new branch after the part of the path behind its last '/' (the whole
\* path when it has no '/'), and 'worktree-branch' when the path ends with
\* '/'; the one primitive invoked is raw ['worktree', 'add', '-b', branch,
\* path] and the success text names that path and that branch.
C21_DefaultWorktreeBranch ==
  (/\ tool = "create_worktree" /\ args.bag /\ handles # <<>>
   /\ C21_ValidPath(args.path) /\ args.branch = Undef)
    => LET path == args.path.s
           seg == C21_AfterLastSlash(path)
           branch == IF path[Len(path)] = "/" THEN <<"worktree-branch">> ELSE seg
       IN /\ Len(primLog) = 1
          /\ primLog[1].p = "raw"
          /\ primLog[1].pargs = C21_WorktreeAdd(branch, path)
          /\ (pc = "returned" /\ ~ failed)
               => result = [isError |-> FALSE,
                            text |-> <<"Worktree created at '">> \o path
                                     \o <<"' on new branch '">> \o branch \o <<"'">>]

\* a worktree was created at a path that ends with '/', on 'worktree-branch'
C21_Witness ==
  /\ tool = "create_worktree" /\ pc = "returned" /\ ~ failed
  /\ args.path = Str(<<"a", "/">>) /\ args.branch = Undef
  /\ primLog[1].pargs = C21_WorktreeAdd(<<"worktree-branch">>, <<"a", "/">>)

\* the segments of a path split on '/' that are not empty, as the places
\* where they end
C25_SegmentEnds(path) ==
  {k \in 1..Len(path) : path[k] # "/" /\ (k = Len(path) \/ path[k + 1] = "/")}
\* the last segment of a path that is not empty
C25_LastNonEmptySegment(path) ==
  LET e == CHOOSE k \in C25_SegmentEnds(path) : \A j \in C25_SegmentEnds(path) : j <= k
  IN C21_AfterLastSlash(SubSeq(path, 1, e))
\* the branch named by the arguments of raw ['worktree', 'add', '-b', ...]
C25_BranchOf(pargs) == pargs[1].a[4]

\* C25 as stated: without a branch argument, the branch of the new
\* worktree is the final non-empty segment of the validated path split on
\* '/'; 'worktree-branch' is used only when the path has no non-empty
\* segment at all.
C25_FinalNonEmptySegment ==
  (/\ tool = "create_worktree" /\ args.bag /\ handles # <<>>
   /\ C21_ValidPath(args.path) /\ args.branch = Undef)
    => /\ Len(primLog) = 1
       /\ C25_BranchOf(primLog[1].pargs) =
            IF C25_SegmentEnds(args.path.s) = {} THEN Lit("worktree-branch")
            ELSE Str(C25_LastNonEmptySegment(args.path.s))

\* C25, amended: without a branch argument, the branch of the new worktree
\* is the final segment of the validated path split on '/', empty or not;
\* 'worktree-branch' is used exactly when that final segment is empty, as
\* it is for a path that ends with '/', whatever segments precede it.
C25_FinalSegmentOrFallback ==
  (/\ tool = "create_worktree" /\ args.bag /\ handles # <<>>
   /\ C21_ValidPath(args.path) /\ args.branch = Undef)
    => /\ Len(primLog) = 1
       /\ C25_BranchOf(primLog[1].pargs) = Lit("worktree-branch")
            <=> C21_AfterLastSlash(args.path.s) \in {<<>>, <<"worktree-branch">>}
       /\ C21_AfterLastSlash(args.path.s) # <<>>
            => C25_BranchOf(primLog[1].pargs) = Str(C21_AfterLastSlash(args.path.s))

\* the path 'a/' has the segment 'a', and the branch is 'worktree-branch'
C25_Witness ==
  /\ tool = "create_worktree" /\ args.path = Str(<<"a", "/">>) /\ args.branch = Undef
  /\ Len(primLog) = 1
  /\ C25_LastNonEmptySegment(args.path.s) = <<"a">>
  /\ C25_BranchOf(primLog[1].pargs) = Lit("worktree-branch")

---------------------------------------------------------------------------
(* Branch names *)

\* the blanks of the model
C22_White == {" ", "\n"}
\* a string without its leading and trailing blanks
C22_Trimmed(s) ==
  LET solid == {k \in 1..Len(s) : s[k] \notin C22_White}
  IN IF solid = {} THEN <<>>
     ELSE SubSeq(s, CHOOSE k \in solid : \A j \in solid : k <= j,
                    CHOOSE k \in solid : \A j \in solid : j <= k)
C22_WhitespaceOnly == Error(<<"Branch name cannot be empty or whitespace-only">>)

\* C22: what validateBranchName returns for a string it accepts is the
\* string without its leading and trailing whitespace, and that value is
\* the argument of the primitive and the name in the success text of
\* create_branch and switch_branch; a non-empty string of whitespace only
\* is rejected with 'Branch name cannot be empty or whitespace-only', the
\* empty string with another message.
C22_TrimmedOrRejected ==
  /\ (vFn = "validateBranchName" /\ IsStr(vIn)) =>
       /\ ~ vOut.thrown => vOut = Ret(Str(C22_Trimmed(vIn.s)))
       /\ (vIn.s # <<>> /\ C22_Trimmed(vIn.s) = <<>>)
            => (vOut.thrown /\ vOut.err = C22_WhitespaceOnly)
       /\ vIn.s = <<>> => (vOut.thrown /\ vOut.err # C22_WhitespaceOnly)
  /\ (tool \in {"create_branch", "switch_branch"} /\ primLog # <<>>) =>
       /\ primLog[1].pargs = <<Str(C22_Trimmed(args.branchName.s))>>
       /\ (pc = "returned" /\ ~ failed) =>
            result.text =
              IF tool = "create_branch" THEN C20_Text(C22_Trimmed(args.branchName.s))
              ELSE <<"Switched to branch '">> \o C22_Trimmed(args.branchName.s) \o <<"'">>

\* ' a' with a newline behind it was returned as 'a', and a branch 'a' has
\* been switched to
C22_Witness ==
  /\ vFn = "validateBranchName" /\ vIn = Str(<<" ", "a", "\n">>)
  /\ vOut = Ret(Str(<<"a">>))
  /\ tool = "switch_branch" /\ pc = "returned" /\ ~ failed
  /\ primLog[1].pargs = <<Str(<<"a">>)>>

---------------------------------------------------------------------------
(* Commit messages *)

\* C23 as stated: validateCommitMessage fails if and only if the candidate
\* is empty, not a string, or contains one of < > | & ; $ and the backtick;
\* every other string is returned unchanged, whatever else it contains.
C23_FailsExactlyListed ==
  vFn = "validateCommitMessage"
    => /\ vOut.thrown <=> (~ IsStr(vIn) \/ vIn.s = <<>> \/ HasListedChar(vIn.s))
       /\ ~ vOut.thrown => vOut = Ret(vIn)

\* C23, amended: validateCommitMessage fails if and only if the candidate
\* is empty, not a string, or contains one of < > | & ; $, the backtick and
\* the backslash; every other string is returned unchanged, with its '..',
\* its leading and trailing whitespace and its newlines.
C23_FailsExactly ==
  vFn = "validateCommitMessage"
    => /\ vOut.thrown <=> (\/ ~ IsStr(vIn) \/ vIn.s = <<>>
                           \/ HasListedChar(vIn.s) \/ HasBackslash(vIn.s))
       /\ ~ vOut.thrown => vOut = Ret(vIn)

\* a message of a blank, '.', and a newline is returned as it is
C23_Witness ==
  /\ vFn = "validateCommitMessage" /\ vIn = Str(<<" ", ".", "\n">>)
  /\ vOut = Ret(vIn)

---------------------------------------------------------------------------
(* The tools listed and the tools handled *)

\* the eleven names of the claim
C24_Names ==
  {"git_status", "create_branch", "switch_branch", "list_branches", "merge_branch",
   "create_worktree", "list_worktrees", "remove_worktree", "commit_changes",
   "push_changes", "pull_changes"}
\* the call was answered by the default case of the dispatcher
C24_AnsweredUnknown ==
  /\ pc = "returned" /\ primLog = <<>> /\ handles = <<>>
  /\ result = [isError |-> TRUE, text |-> <<"Unknown tool: ", tool>>]

\* C24: tools/list answers with exactly the eleven names, each once, and
\* the dispatcher handles exactly these: a call of a listed tool is never
\* answered with 'Unknown tool', and a call of any other name always is.
C24_ListedIffHandled ==
  /\ Len(tools) = 11 /\ Cardinality(C24_Names) = 11
  /\ {tools[i] : i \in 1..Len(tools)} = C24_Names
  /\ pc # "idle" =>
       (tool \in {tools[i] : i \in 1..Len(tools)} <=> ~ C24_AnsweredUnknown)

\* the last tool of the list has been called and has run its primitive
C24_Witness ==
  /\ tool = tools[11] /\ pc = "returned" /\ ~ failed /\ Len(primLog) = 1

---------------------------------------------------------------------------
(* The elements of files *)

\* C26 as stated: the check commit_changes applies to an element of files
\* accepts a value if and only if validatePath accepts the same value,
\* whatever the value: a string of any content, the empty string, a value
\* that is not a string.
C26_SameAsValidatePath ==
  vFn = "validateFile" => (vOut.thrown <=> validatePath(vIn).thrown)

---------------------------------------------------------------------------
(* Parse errors of the line-based server *)

\* C27 as stated: 'Parse error' (code -32700, no id) is written only for
\* lines that are not well-formed JSON: a non-blank line that is
\* well-formed JSON, whatever its value, is answered by method resolution,
\* with a result or an error of code -32000.
C27_ParseErrorOnlyForMalformed ==
  \A n \in Arrived :
    (NonBlank(n) /\ C16_WellFormed(TextOf(n)) /\ At("write", n) # {}) =>
      /\ C15_ResponseOf(n).code # -32700
      /\ C15_ResponseOf(n).kind = "result" \/ C15_ResponseOf(n).code = -32000

---------------------------------------------------------------------------
(* The branch of a new worktree *)

\* C30 as stated: the branch name create_worktree passes to 'worktree add
\* -b' is always a name that validateBranchName returns unchanged, whether
\* it was given as the branch argument or derived from the path.
C30_WorktreeBranchIsValidated ==
  (tool = "create_worktree" /\ primLog # <<>>) =>
    validateBranchName(C25_BranchOf(primLog[1].pargs))
      = Ret(C25_BranchOf(primLog[1].pargs))

---------------------------------------------------------------------------
(* Failures and the repository *)

\* C29 as stated: when a call returns a failure, the repository is as it
\* was before the call: the branch that was checked out is checked out,
\* and nothing is newly staged.
C29_FailureLeavesRepository ==
  (pc = "returned" /\ result.isError) => repo = repoAtCall

---------------------------------------------------------------------------
(* merge_branch and the branch that is checked out *)

\* C28 as stated: when merge_branch with a targetBranch answers "Merged
\* '<source>' into '<target>'", its merge ran while the target was the
\* checked-out branch, also when other requests arrive in later chunks
\* while the call is in flight: in the step in which the merge resolves
\* and the answer is written, the target is checked out.
C28_MergedWhileTargetCheckedOut ==
  [][\A k \in (Len(stdout) + 1)..Len(stdout') :
       (/\ stdout'[k].kind = "result" /\ ~ stdout'[k].result.isError
        /\ Len(stdout'[k].result.text) = 5
        /\ stdout'[k].result.text[1] = "Merged '")
         => repo.head = <<stdout'[k].result.text[4]>>]_vars

===========================================================================
